---- MODULE Spec2Model ----
(***************************************************************************)
(* MyExpenses: the expense entity and its validator (package domain), the  *)
(* Service that orchestrates validation, existence checks and storage      *)
(* calls (package application), the store behind the Repository interface  *)
(* (package postgres) and the Handler's mapping of Service results to      *)
(* HTTP responses (package http).                                          *)
(*                                                                         *)
(* Text (description, category) is a sequence of characters, the zero      *)
(* time.Time is date 0, a uuid.UUID is a positive number and the id string *)
(* of a request is what uuid.Parse reads: <<"uuid", n>> or something else. *)
(* An error is its kind (the sentinel errors.Is finds at the bottom of the *)
(* %w chain) together with its text (what err.Error() prints, one element  *)
(* per wrapping layer).  Amounts are exact numbers.                        *)
(*                                                                         *)
(* A request body is a JSON object whose fields may be absent, or bytes    *)
(* the decoder rejects; a date of a body is its instant and the way its    *)
(* zone is written.  A query string is a mapping from parameter to text,   *)
(* numbers written in decimal digits.  A response body is a mapping from   *)
(* field name to value.                                                    *)
(***************************************************************************)
EXTENDS Integers, Sequences, FiniteSets, TLC

VARIABLES
    store,      \* the expenses table: uuid -> row, for the rows that exist
    now,        \* the database clock read by autoCreateTime / autoUpdateTime
    nextID,     \* how many uuids uuid.New() has handed out
    inflight,   \* per request goroutine: where its Service call stands, or how it ended
    deletions,  \* history: per uuid, how many DeleteExpense calls returned success
    unit,       \* the entity-level call under test (NewExpense, Validate, Update)
    request     \* per request goroutine: the HTTP request its Handler was given

vars == <<store, now, nextID, inflight, deletions, unit, request>>

-----------------------------------------------------------------------------
(* Bounds *)

MaxAmount == 2      \* amounts range over -1 .. MaxAmount
MaxDate == 2        \* dates range over 0 .. MaxDate, 0 the zero time
MaxIDs == 2         \* uuids that uuid.New() may hand out
MaxClock == 3       \* writes that stamp a row (insert, save)

EmptyString == <<>>
ZeroTime == 0
NilUUID == 0

Texts == {EmptyString, <<"a">>, <<"b">>}
Amounts == -1 .. MaxAmount
Dates == ZeroTime .. MaxDate
UUIDs == 1 .. MaxIDs
Procs == {1, 2}       \* the requests in flight at once

-----------------------------------------------------------------------------
(* package domain: errors *)

NoErr == [kind |-> "nil", text |-> <<>>]

ErrInvalidDescription ==
    [kind |-> "InvalidDescription", text |-> <<"invalid description: cannot be empty">>]
ErrInvalidAmount ==
    [kind |-> "InvalidAmount", text |-> <<"invalid amount: must be greater than 0">>]
ErrInvalidCategory ==
    [kind |-> "InvalidCategory", text |-> <<"invalid category: cannot be empty">>]
ErrInvalidDate ==
    [kind |-> "InvalidDate", text |-> <<"invalid date: cannot be zero">>]
ErrExpenseNotFound ==
    [kind |-> "NotFound", text |-> <<"expense not found">>]

\* fmt.Errorf("<prefix>: %w", err): the text grows, the wrapped sentinel stays
Wrap(prefix, err) == [kind |-> err.kind, text |-> <<prefix>> \o err.text]

\* errors.Is(err, domain.ErrExpenseNotFound)
IsNotFound(err) == err.kind = "NotFound"

ValidationKinds ==
    {"InvalidDescription", "InvalidAmount", "InvalidCategory", "InvalidDate"}

-----------------------------------------------------------------------------
(* package domain: the Expense entity *)

\* a nil *Expense
NilExpense ==
    [ID |-> NilUUID, Description |-> EmptyString, Amount |-> 0,
     Category |-> EmptyString, Date |-> ZeroTime,
     CreatedAt |-> ZeroTime, UpdatedAt |-> ZeroTime]

Expense(id, description, amount, category, date, createdAt, updatedAt) ==
    [ID |-> id, Description |-> description, Amount |-> amount,
     Category |-> category, Date |-> date,
     CreatedAt |-> createdAt, UpdatedAt |-> updatedAt]

\* NewExpense(description, amount, category, date), id the value of uuid.New()
NewExpenseNoAmountCheck(description, amount, category, date, id) ==
    IF description = EmptyString THEN [exp |-> NilExpense, err |-> ErrInvalidDescription]
    ELSE IF category = EmptyString THEN [exp |-> NilExpense, err |-> ErrInvalidCategory]
    ELSE IF date = ZeroTime THEN [exp |-> NilExpense, err |-> ErrInvalidDate]
    ELSE [exp |-> Expense(id, description, amount, category, date, ZeroTime, ZeroTime),
          err |-> NoErr]

NewExpenseSwapsFields(description, amount, category, date, id) ==
    IF description = EmptyString THEN [exp |-> NilExpense, err |-> ErrInvalidDescription]
    ELSE IF amount <= 0 THEN [exp |-> NilExpense, err |-> ErrInvalidAmount]
    ELSE IF category = EmptyString THEN [exp |-> NilExpense, err |-> ErrInvalidCategory]
    ELSE IF date = ZeroTime THEN [exp |-> NilExpense, err |-> ErrInvalidDate]
    ELSE [exp |-> Expense(id, category, amount, description, date, ZeroTime, ZeroTime),
          err |-> NoErr]

NewExpenseAmountFirst(description, amount, category, date, id) ==
    IF amount <= 0 THEN [exp |-> NilExpense, err |-> ErrInvalidAmount]
    ELSE IF description = EmptyString THEN [exp |-> NilExpense, err |-> ErrInvalidDescription]
    ELSE IF category = EmptyString THEN [exp |-> NilExpense, err |-> ErrInvalidCategory]
    ELSE IF date = ZeroTime THEN [exp |-> NilExpense, err |-> ErrInvalidDate]
    ELSE [exp |-> Expense(id, description, amount, category, date, ZeroTime, ZeroTime),
          err |-> NoErr]

NewExpenseNoDateCheck(description, amount, category, date, id) ==
    IF description = EmptyString THEN [exp |-> NilExpense, err |-> ErrInvalidDescription]
    ELSE IF amount <= 0 THEN [exp |-> NilExpense, err |-> ErrInvalidAmount]
    ELSE IF category = EmptyString THEN [exp |-> NilExpense, err |-> ErrInvalidCategory]
    ELSE [exp |-> Expense(id, description, amount, category, date, ZeroTime, ZeroTime),
          err |-> NoErr]

NewExpense(description, amount, category, date, id) ==
    IF description = EmptyString THEN [exp |-> NilExpense, err |-> ErrInvalidDescription]
    ELSE IF amount <= 0 THEN [exp |-> NilExpense, err |-> ErrInvalidAmount]
    ELSE IF category = EmptyString THEN [exp |-> NilExpense, err |-> ErrInvalidCategory]
    ELSE IF date = ZeroTime THEN [exp |-> NilExpense, err |-> ErrInvalidDate]
    ELSE [exp |-> Expense(id, description, amount, category, date, ZeroTime, ZeroTime),
          err |-> NoErr]

\* (e *Expense) Validate()
ValidateCategoryFirst(e) ==
    IF e.Category = EmptyString THEN ErrInvalidCategory
    ELSE IF e.Description = EmptyString THEN ErrInvalidDescription
    ELSE IF e.Amount <= 0 THEN ErrInvalidAmount
    ELSE IF e.Date = ZeroTime THEN ErrInvalidDate
    ELSE NoErr

Validate(e) ==
    IF e.Description = EmptyString THEN ErrInvalidDescription
    ELSE IF e.Amount <= 0 THEN ErrInvalidAmount
    ELSE IF e.Category = EmptyString THEN ErrInvalidCategory
    ELSE IF e.Date = ZeroTime THEN ErrInvalidDate
    ELSE NoErr

\* the fields (e *Expense) Update leaves in e, before it validates
UpdateFieldsAlwaysAmount(e, description, amount, category, date) ==
    [e EXCEPT
        !.Description = IF description # EmptyString THEN description ELSE @,
        !.Amount = amount,
        !.Category = IF category # EmptyString THEN category ELSE @,
        !.Date = IF date # ZeroTime THEN date ELSE @]

UpdateFieldsTouchesUpdatedAt(e, description, amount, category, date) ==
    [e EXCEPT
        !.Description = IF description # EmptyString THEN description ELSE @,
        !.Amount = IF amount > 0 THEN amount ELSE @,
        !.Category = IF category # EmptyString THEN category ELSE @,
        !.Date = IF date # ZeroTime THEN date ELSE @,
        !.UpdatedAt = @ + 1]

UpdateFieldsRenumbers(e, description, amount, category, date) ==
    [e EXCEPT
        !.ID = IF @ = 1 THEN 2 ELSE 1,
        !.Description = IF description # EmptyString THEN description ELSE @,
        !.Amount = IF amount > 0 THEN amount ELSE @,
        !.Category = IF category # EmptyString THEN category ELSE @,
        !.Date = IF date # ZeroTime THEN date ELSE @]

UpdateFieldsClearsText(e, description, amount, category, date) ==
    [e EXCEPT
        !.Description = description,
        !.Amount = IF amount > 0 THEN amount ELSE @,
        !.Category = category,
        !.Date = IF date # ZeroTime THEN date ELSE @]

UpdateFields(e, description, amount, category, date) ==
    [e EXCEPT
        !.Description = IF description # EmptyString THEN description ELSE @,
        !.Amount = IF amount > 0 THEN amount ELSE @,
        !.Category = IF category # EmptyString THEN category ELSE @,
        !.Date = IF date # ZeroTime THEN date ELSE @]

\* (e *Expense) Update(description, amount, category, date): e afterwards, and the error
Update(e, description, amount, category, date) ==
    LET f == UpdateFields(e, description, amount, category, date)
    IN  [exp |-> f, err |-> Validate(f)]

-----------------------------------------------------------------------------
(* package postgres: the Repository over the expenses table *)

\* the string form of a uuid, as it appears in a request path
IDString(u) == <<"uuid", u>>

\* uuid.Parse(id)
UuidParse(id) ==
    IF Len(id) = 2 /\ id[1] = "uuid"
    THEN [uuid |-> id[2], err |-> NoErr]
    ELSE [uuid |-> NilUUID, err |-> [kind |-> "InvalidUUID", text |-> <<"invalid UUID length">>]]

\* any error the database connection reports (lost connection, cancelled context)
ErrDB == [kind |-> "Storage", text |-> <<"driver: bad connection">>]

Rows(st) == {st[u] : u \in DOMAIN st}

Remove(st, u) == [x \in (DOMAIN st) \ {u} |-> st[x]]

Put(st, row) == [x \in (DOMAIN st) \cup {row.ID} |-> IF x = row.ID THEN row ELSE st[x]]

\* Repository.Create: INSERT, autoCreateTime and autoUpdateTime stamp the row
RepoCreatePartialOnFailure(st, t, expense, dbOK) ==
    IF expense.ID \in DOMAIN st
    THEN [store |-> st, exp |-> expense, err |-> ErrDB]
    ELSE IF ~dbOK
    THEN [store |-> Put(st, [expense EXCEPT !.Category = EmptyString]),
          exp |-> expense, err |-> ErrDB]
    ELSE LET row == [expense EXCEPT
                        !.CreatedAt = IF @ = ZeroTime THEN t ELSE @,
                        !.UpdatedAt = IF @ = ZeroTime THEN t ELSE @]
         IN  [store |-> Put(st, row), exp |-> row, err |-> NoErr]

RepoCreate(st, t, expense, dbOK) ==
    IF ~dbOK \/ expense.ID \in DOMAIN st
    THEN [store |-> st, exp |-> expense, err |-> ErrDB]
    ELSE LET row == [expense EXCEPT
                        !.CreatedAt = IF @ = ZeroTime THEN t ELSE @,
                        !.UpdatedAt = IF @ = ZeroTime THEN t ELSE @]
         IN  [store |-> Put(st, row), exp |-> row, err |-> NoErr]

\* Repository.GetByID
RepoGetByIDNoNotFound(st, id, dbOK) ==
    LET p == UuidParse(id)
    IN  IF p.err # NoErr THEN [exp |-> NilExpense, err |-> Wrap("invalid UUID format", p.err)]
        ELSE IF ~dbOK THEN [exp |-> NilExpense, err |-> Wrap("failed to get expense", ErrDB)]
        ELSE IF p.uuid \notin DOMAIN st THEN [exp |-> NilExpense, err |-> NoErr]
        ELSE [exp |-> st[p.uuid], err |-> NoErr]

RepoGetByID(st, id, dbOK) ==
    LET p == UuidParse(id)
    IN  IF p.err # NoErr THEN [exp |-> NilExpense, err |-> Wrap("invalid UUID format", p.err)]
        ELSE IF ~dbOK THEN [exp |-> NilExpense, err |-> Wrap("failed to get expense", ErrDB)]
        ELSE IF p.uuid \notin DOMAIN st THEN [exp |-> NilExpense, err |-> ErrExpenseNotFound]
        ELSE [exp |-> st[p.uuid], err |-> NoErr]

\* Repository.Update: Save writes every field of the row and refreshes updated_at;
\* when no row has the primary key, Save inserts the row
RepoUpdateStampsOnly(st, t, expense, dbOK) ==
    IF ~dbOK \/ expense.ID \notin DOMAIN st
    THEN [store |-> st, exp |-> expense, err |-> ErrDB]
    ELSE [store |-> Put(st, [st[expense.ID] EXCEPT !.UpdatedAt = t]),
          exp |-> [expense EXCEPT !.UpdatedAt = t], err |-> NoErr]

RepoUpdateKeepsUpdatedAt(st, t, expense, dbOK) ==
    IF ~dbOK
    THEN [store |-> st, exp |-> expense, err |-> ErrDB]
    ELSE [store |-> Put(st, expense), exp |-> expense, err |-> NoErr]

RepoUpdate(st, t, expense, dbOK) ==
    IF ~dbOK
    THEN [store |-> st, exp |-> expense, err |-> ErrDB]
    ELSE LET row == [expense EXCEPT !.UpdatedAt = t]
         IN  [store |-> Put(st, row), exp |-> row, err |-> NoErr]

\* Repository.Delete
RepoDeleteAll(st, id, dbOK) ==
    LET p == UuidParse(id)
    IN  IF p.err # NoErr THEN [store |-> st, err |-> Wrap("invalid UUID format", p.err)]
        ELSE IF ~dbOK THEN [store |-> st, err |-> Wrap("failed to delete expense", ErrDB)]
        ELSE IF p.uuid \notin DOMAIN st THEN [store |-> st, err |-> ErrExpenseNotFound]
        ELSE [store |-> [x \in {} |-> NilExpense], err |-> NoErr]

RepoDeleteIgnoresRowsAffected(st, id, dbOK) ==
    LET p == UuidParse(id)
    IN  IF p.err # NoErr THEN [store |-> st, err |-> Wrap("invalid UUID format", p.err)]
        ELSE IF ~dbOK THEN [store |-> st, err |-> Wrap("failed to delete expense", ErrDB)]
        ELSE [store |-> Remove(st, p.uuid), err |-> NoErr]

RepoDelete(st, id, dbOK) ==
    LET p == UuidParse(id)
    IN  IF p.err # NoErr THEN [store |-> st, err |-> Wrap("invalid UUID format", p.err)]
        ELSE IF ~dbOK THEN [store |-> st, err |-> Wrap("failed to delete expense", ErrDB)]
        ELSE IF p.uuid \notin DOMAIN st THEN [store |-> st, err |-> ErrExpenseNotFound]
        ELSE [store |-> Remove(st, p.uuid), err |-> NoErr]

\* Repository.Exists
RepoExistsAlwaysTrue(st, id, dbOK) ==
    LET p == UuidParse(id)
    IN  IF p.err # NoErr THEN [exists |-> FALSE, err |-> Wrap("invalid UUID format", p.err)]
        ELSE IF ~dbOK
        THEN [exists |-> FALSE, err |-> Wrap("failed to check expense existence", ErrDB)]
        ELSE [exists |-> TRUE, err |-> NoErr]

RepoExistsMalformedIsAbsent(st, id, dbOK) ==
    LET p == UuidParse(id)
    IN  IF p.err # NoErr THEN [exists |-> FALSE, err |-> NoErr]
        ELSE IF ~dbOK
        THEN [exists |-> FALSE, err |-> Wrap("failed to check expense existence", ErrDB)]
        ELSE [exists |-> p.uuid \in DOMAIN st, err |-> NoErr]

RepoExists(st, id, dbOK) ==
    LET p == UuidParse(id)
    IN  IF p.err # NoErr THEN [exists |-> FALSE, err |-> Wrap("invalid UUID format", p.err)]
        ELSE IF ~dbOK
        THEN [exists |-> FALSE, err |-> Wrap("failed to check expense existence", ErrDB)]
        ELSE [exists |-> p.uuid \in DOMAIN st, err |-> NoErr]

-----------------------------------------------------------------------------
(* package postgres: Repository.GetAll *)

\* what ILIKE does to a letter before comparing
Lower(ch) ==
    CASE ch = "A" -> "a"
      [] ch = "B" -> "b"
      [] ch = "F" -> "f"
      [] ch = "L" -> "l"
      [] ch = "T" -> "t"
      [] ch = "U" -> "u"
      [] OTHER -> ch

\* text ILIKE pattern: % is any run of characters, _ any one character
RECURSIVE ILike(_, _)
ILike(text, pattern) ==
    IF pattern = <<>> THEN text = <<>>
    ELSE IF Head(pattern) = "%"
    THEN ILike(text, Tail(pattern)) \/ (text # <<>> /\ ILike(Tail(text), pattern))
    ELSE /\ text # <<>>
         /\ (Head(pattern) = "_" \/ Lower(Head(text)) = Lower(Head(pattern)))
         /\ ILike(Tail(text), Tail(pattern))

\* a filter value as interface{}: a string or a float64
StringValue(s) == [type |-> "string", val |-> s]
FloatValue(x) == [type |-> "float64", val |-> x]

\* a date_from / date_to string as the database reads it: <<"date", n>> is a timestamp
IsTimestamp(s) == Len(s) = 2 /\ s[1] = "date"

\* the WHERE clause one filter entry adds (TRUE when it adds none)
CriterionKeepsNonPositive(key, value, row) ==
    CASE key = "category" ->
            IF value.type = "string" /\ value.val # EmptyString
            THEN ILike(row.Category, <<"%">> \o value.val \o <<"%">>) ELSE TRUE
      [] key = "description" ->
            IF value.type = "string" /\ value.val # EmptyString
            THEN ILike(row.Description, <<"%">> \o value.val \o <<"%">>) ELSE TRUE
      [] key = "date_from" ->
            IF value.type = "string" /\ value.val # EmptyString
            THEN IsTimestamp(value.val) /\ row.Date >= value.val[2] ELSE TRUE
      [] key = "date_to" ->
            IF value.type = "string" /\ value.val # EmptyString
            THEN IsTimestamp(value.val) /\ row.Date <= value.val[2] ELSE TRUE
      [] key = "min_amount" ->
            IF value.type = "float64" THEN row.Amount >= value.val ELSE TRUE
      [] key = "max_amount" ->
            IF value.type = "float64" THEN row.Amount <= value.val ELSE TRUE
      [] OTHER -> TRUE

Criterion(key, value, row) ==
    CASE key = "category" ->
            IF value.type = "string" /\ value.val # EmptyString
            THEN ILike(row.Category, <<"%">> \o value.val \o <<"%">>) ELSE TRUE
      [] key = "description" ->
            IF value.type = "string" /\ value.val # EmptyString
            THEN ILike(row.Description, <<"%">> \o value.val \o <<"%">>) ELSE TRUE
      [] key = "date_from" ->
            IF value.type = "string" /\ value.val # EmptyString
            THEN IsTimestamp(value.val) /\ row.Date >= value.val[2] ELSE TRUE
      [] key = "date_to" ->
            IF value.type = "string" /\ value.val # EmptyString
            THEN IsTimestamp(value.val) /\ row.Date <= value.val[2] ELSE TRUE
      [] key = "min_amount" ->
            IF value.type = "float64" /\ value.val > 0
            THEN row.Amount >= value.val ELSE TRUE
      [] key = "max_amount" ->
            IF value.type = "float64" /\ value.val > 0
            THEN row.Amount <= value.val ELSE TRUE
      [] OTHER -> TRUE

\* a date criterion the database cannot read as a timestamp fails the query
BadDateFilter(filters) ==
    \E key \in DOMAIN filters \cap {"date_from", "date_to"} :
        /\ filters[key].type = "string"
        /\ filters[key].val # EmptyString
        /\ ~IsTimestamp(filters[key].val)

Selected(st, filters) ==
    {row \in Rows(st) : \A key \in DOMAIN filters : Criterion(key, filters[key], row)}

\* ORDER BY date DESC: every order of the rows that has no earlier date before a later one
OrderByDateAsc(rows) ==
    {order \in [1 .. Cardinality(rows) -> rows] :
        /\ \A i, j \in DOMAIN order : i # j => order[i] # order[j]
        /\ \A i, j \in DOMAIN order : i < j => order[i].Date <= order[j].Date}

OrderByDateDesc(rows) ==
    {order \in [1 .. Cardinality(rows) -> rows] :
        /\ \A i, j \in DOMAIN order : i # j => order[i] # order[j]
        /\ \A i, j \in DOMAIN order : i < j => order[i].Date >= order[j].Date}

\* Repository.GetAll: the lists the query may return
RepoGetAll(st, filters, dbOK) ==
    IF ~dbOK \/ BadDateFilter(filters)
    THEN {[list |-> <<>>, err |-> Wrap("failed to get expenses", ErrDB)]}
    ELSE {[list |-> order, err |-> NoErr] : order \in OrderByDateDesc(Selected(st, filters))}

-----------------------------------------------------------------------------
(* package http: how the Handler answers a Service result *)

\* Handler.CreateExpense, after ShouldBindJSON accepted the body
HandlerCreateStatus(err) ==
    IF err # NoErr THEN 500 ELSE 201

\* Handler.GetExpense, Handler.UpdateExpense, Handler.DeleteExpense: the branch on
\* err.Error() == "expense not found"
HandlerStatusAlways404(err) ==
    IF err # NoErr THEN 404 ELSE 200

HandlerStatus(err) ==
    IF err # NoErr
    THEN IF err.text = <<"expense not found">> THEN 404 ELSE 500
    ELSE 200

\* Handler.GetAllExpenses
HandlerGetAllStatus(err) ==
    IF err # NoErr THEN 500 ELSE 200

\* the gin.H the Handler writes for a Service result, a mapping from field to value
HandlerCreateBody(exp, err) ==
    IF err # NoErr
    THEN [error |-> "Failed to create expense"]
    ELSE [message |-> "Expense created successfully", data |-> exp]

HandlerGetBody(exp, err) ==
    IF err # NoErr
    THEN IF err.text = <<"expense not found">>
         THEN [error |-> "Expense not found"]
         ELSE [error |-> "Failed to get expense"]
    ELSE [data |-> exp]

HandlerUpdateBodyKeepsData(exp, err) ==
    IF err # NoErr
    THEN [error |-> "Failed to update expense", data |-> exp]
    ELSE [message |-> "Expense updated successfully", data |-> exp]

HandlerUpdateBody(exp, err) ==
    IF err # NoErr
    THEN IF err.text = <<"expense not found">>
         THEN [error |-> "Expense not found"]
         ELSE [error |-> "Failed to update expense"]
    ELSE [message |-> "Expense updated successfully", data |-> exp]

HandlerDeleteBody(err) ==
    IF err # NoErr
    THEN IF err.text = <<"expense not found">>
         THEN [error |-> "Expense not found"]
         ELSE [error |-> "Failed to delete expense"]
    ELSE [message |-> "Expense deleted successfully"]

HandlerGetAllBody(list, err) ==
    IF err # NoErr
    THEN [error |-> "Failed to get expenses"]
    ELSE [data |-> list, count |-> Len(list)]

\* the body the Handler of operation op writes for the Service result (exp, err)
HandlerBody(op, exp, err) ==
    CASE op = "create" -> HandlerCreateBody(exp, err)
      [] op = "get" -> HandlerGetBody(exp, err)
      [] op = "update" -> HandlerUpdateBody(exp, err)
      [] op = "delete" -> HandlerDeleteBody(err)

-----------------------------------------------------------------------------
(* package application: the Service, one action per storage call *)

Request(description, amount, category, date) ==
    [Description |-> description, Amount |-> amount, Category |-> category, Date |-> date]

ZeroRequest == Request(EmptyString, 0, EmptyString, ZeroTime)

NoFilters == [key \in {} |-> StringValue(EmptyString)]

\* a goroutine with no request: pc is "idle"; in a Service call: pc names the storage
\* call it is about to make; after the call returned: pc is "done", with (exp, err)
\* or (list, err) as the Service returned them and status and body as the Handler
\* answers; exists is what a Repository.Exists call made on its own returned
Idle ==
    [pc |-> "idle", op |-> "none", id |-> <<>>, req |-> ZeroRequest,
     filters |-> NoFilters, exp |-> NilExpense, list |-> <<>>, err |-> NoErr,
     exists |-> FALSE, status |-> 0, body |-> <<>>, calls |-> <<>>]

\* a request body as sent: json is "object" for a JSON object, "malformed" for bytes
\* the decoder rejects, "none" for no body; a field of the object is <<>> when absent
\* and <<value>> when present
JSONBody(description, amount, category, date) ==
    [json |-> "object", Description |-> description, Amount |-> amount,
     Category |-> category, Date |-> date]

MalformedJSON == [JSONBody(<<>>, <<>>, <<>>, <<>>) EXCEPT !.json = "malformed"]
NoJSON == [JSONBody(<<>>, <<>>, <<>>, <<>>) EXCEPT !.json = "none"]

\* the query string of a request: parameter name -> text
NoQuery == [name \in {} |-> EmptyString]

NoRequest == [body |-> NoJSON, query |-> NoQuery]

NoUnit ==
    [fn |-> "none", recv |-> NilExpense, args |-> ZeroRequest, mid |-> NilExpense,
     out |-> NilExpense, err |-> NoErr]

Ready(p) == inflight[p].pc = "idle"

\* the Service call of goroutine p returns (exp, err) and the Handler answers status
\* with the body of the operation
Return(p, op, id, req, exp, err, status, calls) ==
    inflight' = [inflight EXCEPT ![p] =
        [Idle EXCEPT !.pc = "done", !.op = op, !.id = id, !.req = req, !.exp = exp,
                     !.err = err, !.status = status,
                     !.body = HandlerBody(op, exp, err), !.calls = calls]]

\* the Service call of goroutine p goes on to its next storage call
Proceed(p, pc, op, id, req, exp, calls) ==
    inflight' = [inflight EXCEPT ![p] =
        [Idle EXCEPT !.pc = pc, !.op = op, !.id = id, !.req = req, !.exp = exp,
                     !.calls = calls]]

Init ==
    /\ store = [u \in {} |-> NilExpense]
    /\ now = 0
    /\ nextID = 0
    /\ inflight = [p \in Procs |-> Idle]
    /\ deletions = [u \in UUIDs |-> 0]
    /\ unit = NoUnit
    /\ request = [p \in Procs |-> NoRequest]

\* Service.CreateExpense
CreateExpense(p, req, dbOK) ==
    /\ Ready(p)
    /\ nextID < MaxIDs
    /\ now < MaxClock
    /\ LET n == NewExpense(req.Description, req.Amount, req.Category, req.Date, nextID + 1)
       IN  IF n.err # NoErr
           THEN /\ Return(p, "create", <<>>, req, NilExpense,
                          Wrap("failed to create expense", n.err),
                          HandlerCreateStatus(Wrap("failed to create expense", n.err)),
                          <<>>)
                /\ UNCHANGED <<store, now, nextID>>
           ELSE LET c == RepoCreate(store, now + 1, n.exp, dbOK)
                IN  /\ nextID' = nextID + 1
                    /\ store' = c.store
                    /\ IF c.err # NoErr
                       THEN /\ Return(p, "create", <<>>, req, NilExpense,
                                      Wrap("failed to save expense", c.err),
                                      HandlerCreateStatus(Wrap("failed to save expense", c.err)),
                                      <<"Create">>)
                            /\ now' = now
                       ELSE /\ Return(p, "create", <<>>, req, c.exp, NoErr,
                                      HandlerCreateStatus(NoErr), <<"Create">>)
                            /\ now' = now + 1
    /\ UNCHANGED <<deletions, unit>>

\* Service.GetExpense
GetExpense(p, id, dbOK) ==
    /\ Ready(p)
    /\ LET g == RepoGetByID(store, id, dbOK)
           err == Wrap("failed to get expense", g.err)
       IN  IF g.err # NoErr
           THEN Return(p, "get", id, ZeroRequest, NilExpense, err,
                       HandlerStatus(err), <<"GetByID">>)
           ELSE Return(p, "get", id, ZeroRequest, g.exp, NoErr,
                       HandlerStatus(NoErr), <<"GetByID">>)
    /\ UNCHANGED <<store, now, nextID, deletions, unit>>

\* Service.GetAllExpenses
GetAllExpenses(p, filters, dbOK) ==
    /\ Ready(p)
    /\ \E g \in RepoGetAll(store, filters, dbOK) :
        LET err == IF g.err # NoErr THEN Wrap("failed to get expenses", g.err) ELSE NoErr
        IN  inflight' = [inflight EXCEPT ![p] =
                [Idle EXCEPT !.pc = "done", !.op = "getAll", !.filters = filters,
                             !.list = g.list, !.err = err,
                             !.status = HandlerGetAllStatus(err),
                             !.body = HandlerGetAllBody(g.list, err),
                             !.calls = <<"GetAll">>]]
    /\ UNCHANGED <<store, now, nextID, deletions, unit>>

\* Service.UpdateExpense, step 1: s.repo.Exists
UpdateExists(p, id, req, dbOK) ==
    /\ Ready(p)
    /\ LET x == RepoExists(store, id, dbOK)
           err == Wrap("failed to check expense existence", x.err)
       IN  IF x.err # NoErr
           THEN Return(p, "update", id, req, NilExpense, err,
                       HandlerStatus(err), <<"Exists">>)
           ELSE IF ~x.exists
           THEN Return(p, "update", id, req, NilExpense, ErrExpenseNotFound,
                       HandlerStatus(ErrExpenseNotFound), <<"Exists">>)
           ELSE Proceed(p, "update:GetByID", "update", id, req, NilExpense, <<"Exists">>)
    /\ UNCHANGED <<store, now, nextID, deletions, unit>>

\* Service.UpdateExpense, steps 2 and 3: s.repo.GetByID, then expense.Update
UpdateGetByIDTriesAgain(p, dbOK) ==
    /\ inflight[p].pc = "update:GetByID"
    /\ LET f == inflight[p]
           calls == Append(f.calls, "GetByID")
           g == RepoGetByID(store, f.id, dbOK)
           u == Update(g.exp, f.req.Description, f.req.Amount, f.req.Category, f.req.Date)
       IN  IF g.err # NoErr
           THEN IF Len(f.calls) < 2
                THEN Proceed(p, "update:GetByID", "update", f.id, f.req, NilExpense, calls)
                ELSE Return(p, "update", f.id, f.req, NilExpense,
                            Wrap("failed to get expense", g.err),
                            HandlerStatus(Wrap("failed to get expense", g.err)), calls)
           ELSE IF u.err # NoErr
           THEN Return(p, "update", f.id, f.req, NilExpense,
                       Wrap("failed to update expense", u.err),
                       HandlerStatus(Wrap("failed to update expense", u.err)), calls)
           ELSE Proceed(p, "update:Update", "update", f.id, f.req, u.exp, calls)
    /\ UNCHANGED <<store, now, nextID, deletions, unit>>

UpdateGetByID(p, dbOK) ==
    /\ inflight[p].pc = "update:GetByID"
    /\ LET f == inflight[p]
           calls == Append(f.calls, "GetByID")
           g == RepoGetByID(store, f.id, dbOK)
           u == Update(g.exp, f.req.Description, f.req.Amount, f.req.Category, f.req.Date)
       IN  IF g.err # NoErr
           THEN Return(p, "update", f.id, f.req, NilExpense,
                       Wrap("failed to get expense", g.err),
                       HandlerStatus(Wrap("failed to get expense", g.err)), calls)
           ELSE IF u.err # NoErr
           THEN Return(p, "update", f.id, f.req, NilExpense,
                       Wrap("failed to update expense", u.err),
                       HandlerStatus(Wrap("failed to update expense", u.err)), calls)
           ELSE Proceed(p, "update:Update", "update", f.id, f.req, u.exp, calls)
    /\ UNCHANGED <<store, now, nextID, deletions, unit>>

\* Service.UpdateExpense, step 4: s.repo.Update
UpdateSave(p, dbOK) ==
    /\ inflight[p].pc = "update:Update"
    /\ now < MaxClock
    /\ LET f == inflight[p]
           calls == Append(f.calls, "Update")
           s == RepoUpdate(store, now + 1, f.exp, dbOK)
           err == Wrap("failed to save updated expense", s.err)
       IN  /\ store' = s.store
           /\ IF s.err # NoErr
              THEN /\ Return(p, "update", f.id, f.req, NilExpense, err,
                             HandlerStatus(err), calls)
                   /\ now' = now
              ELSE /\ Return(p, "update", f.id, f.req, s.exp, NoErr,
                             HandlerStatus(NoErr), calls)
                   /\ now' = now + 1
    /\ UNCHANGED <<nextID, deletions, unit>>

\* Service.DeleteExpense, step 1: s.repo.Exists
DeleteExists(p, id, dbOK) ==
    /\ Ready(p)
    /\ LET x == RepoExists(store, id, dbOK)
           err == Wrap("failed to check expense existence", x.err)
       IN  IF x.err # NoErr
           THEN Return(p, "delete", id, ZeroRequest, NilExpense, err,
                       HandlerStatus(err), <<"Exists">>)
           ELSE IF ~x.exists
           THEN Return(p, "delete", id, ZeroRequest, NilExpense, ErrExpenseNotFound,
                       HandlerStatus(ErrExpenseNotFound), <<"Exists">>)
           ELSE Proceed(p, "delete:Delete", "delete", id, ZeroRequest, NilExpense,
                        <<"Exists">>)
    /\ UNCHANGED <<store, now, nextID, deletions, unit>>

\* Service.DeleteExpense, step 2: s.repo.Delete
DeleteDelete(p, dbOK) ==
    /\ inflight[p].pc = "delete:Delete"
    /\ LET f == inflight[p]
           calls == Append(f.calls, "Delete")
           d == RepoDelete(store, f.id, dbOK)
           err == Wrap("failed to delete expense", d.err)
       IN  /\ store' = d.store
           /\ IF d.err # NoErr
              THEN /\ Return(p, "delete", f.id, ZeroRequest, NilExpense, err,
                             HandlerStatus(err), calls)
                   /\ deletions' = deletions
              ELSE /\ Return(p, "delete", f.id, ZeroRequest, NilExpense, NoErr,
                             HandlerStatus(NoErr), calls)
                   /\ deletions' = [deletions EXCEPT ![UuidParse(f.id).uuid] = @ + 1]
    /\ UNCHANGED <<now, nextID, unit>>

\* the Handler has written the response: the request's goroutine ends; request is
\* left to the step of the specification, as in every action of the Service
Finish(p) ==
    /\ inflight[p].pc = "done"
    /\ inflight' = [inflight EXCEPT ![p] = Idle]
    /\ UNCHANGED <<store, now, nextID, deletions, unit>>

-----------------------------------------------------------------------------
(* package http: the Handlers, from the request to the Service call *)

\* a time.Time as encoding/json leaves it: the instant, and the location pointer, which
\* is nil for a zone written Z and set for a zone written as an offset
Time(instant, loc) == [instant |-> instant, loc |-> loc]

\* a date of a JSON body: the instant it names and how its zone is written
JSONDate(instant, zone) == [instant |-> instant, zone |-> zone]

\* json.Unmarshal into CreateExpenseRequest / UpdateExpenseRequest: an absent field
\* keeps the zero value of its type
Decode(body) ==
    [Description |-> IF body.Description = <<>> THEN EmptyString ELSE body.Description[1],
     Amount |-> IF body.Amount = <<>> THEN 0 ELSE body.Amount[1],
     Category |-> IF body.Category = <<>> THEN EmptyString ELSE body.Category[1],
     Date |-> IF body.Date = <<>> THEN Time(ZeroTime, "nil")
              ELSE Time(body.Date[1].instant,
                        IF body.Date[1].zone = "Z" THEN "nil" ELSE "set")]

\* the binding tag "required": the field is not the zero value of its type
Required(value, zero) == value # zero

ErrSyntax == [kind |-> "Syntax", text |-> <<"invalid character">>]
ErrBinding == [kind |-> "Binding", text |-> <<"Field validation failed on the tag">>]

\* c.ShouldBindJSON(&req) for CreateExpenseRequest: decode, then the binding tags;
\* the Service is given the date's instant, which is all IsZero reads
BindCreateAcceptsAll(body) ==
    [req |-> Request(Decode(body).Description, Decode(body).Amount,
                     Decode(body).Category, Decode(body).Date.instant),
     err |-> NoErr]

BindCreate(body) ==
    LET d == Decode(body)
    IN  IF body.json # "object" THEN [req |-> ZeroRequest, err |-> ErrSyntax]
        ELSE IF /\ Required(d.Description, EmptyString)
                /\ Required(d.Amount, 0) /\ d.Amount > 0
                /\ Required(d.Category, EmptyString)
                /\ Required(d.Date, Time(ZeroTime, "nil"))
        THEN [req |-> Request(d.Description, d.Amount, d.Category, d.Date.instant),
              err |-> NoErr]
        ELSE [req |-> ZeroRequest, err |-> ErrBinding]

\* c.ShouldBindJSON(&req) for UpdateExpenseRequest, which has no binding tags
BindUpdate(body) ==
    LET d == Decode(body)
    IN  IF body.json # "object" THEN [req |-> ZeroRequest, err |-> ErrSyntax]
        ELSE [req |-> Request(d.Description, d.Amount, d.Category, d.Date.instant),
              err |-> NoErr]

\* the body of a 400: the bind error's text goes out as details
BadRequestBody(err) == [error |-> "Invalid request body", details |-> err.text]
MissingIDBody == [error |-> "Expense ID is required"]

Digit(ch) ==
    CASE ch = "0" -> 0 [] ch = "1" -> 1 [] ch = "2" -> 2 [] ch = "3" -> 3
      [] ch = "4" -> 4 [] ch = "5" -> 5 [] ch = "6" -> 6 [] ch = "7" -> 7
      [] ch = "8" -> 8 [] ch = "9" -> 9 [] OTHER -> -1

RECURSIVE Decimal(_, _)
Decimal(digits, acc) ==
    IF digits = <<>> THEN acc ELSE Decimal(Tail(digits), 10 * acc + Digit(Head(digits)))

\* strconv.ParseFloat(s, 64), for the strings that are whole numbers or no numbers
ParseFloat(s) ==
    LET digits == IF s # <<>> /\ Head(s) = "-" THEN Tail(s) ELSE s
    IN  IF digits = <<>> \/ \E i \in DOMAIN digits : Digit(digits[i]) < 0
        THEN [val |-> 0, err |-> [kind |-> "Syntax", text |-> <<"strconv.ParseFloat">>]]
        ELSE [val |-> IF Head(s) = "-" THEN 0 - Decimal(digits, 0) ELSE Decimal(digits, 0),
              err |-> NoErr]

\* c.Query(name): the parameter's text, "" when the request has none
Query(query, name) == IF name \in DOMAIN query THEN query[name] ELSE EmptyString

\* the filters map Handler.GetAllExpenses builds from the query string
CollectFiltersKeepsAll(query) ==
    [name \in DOMAIN query |-> StringValue(query[name])]

CollectFilters(query) ==
    LET texts == {name \in {"category", "date_from", "date_to", "description"} :
                      Query(query, name) # EmptyString}
        numbers == {name \in {"min_amount", "max_amount"} :
                      /\ Query(query, name) # EmptyString
                      /\ ParseFloat(Query(query, name)).err = NoErr}
    IN  [name \in texts \cup numbers |->
            IF name \in numbers THEN FloatValue(ParseFloat(Query(query, name)).val)
            ELSE StringValue(Query(query, name))]

\* the Handler answers 400 and returns before any Service call
Reject(p, op, id, body) ==
    /\ Ready(p)
    /\ inflight' = [inflight EXCEPT ![p] =
            [Idle EXCEPT !.pc = "done", !.op = op, !.id = id, !.status = 400,
                         !.body = body]]
    /\ UNCHANGED <<store, now, nextID, deletions, unit>>

\* Handler.CreateExpense
HandlerCreateExpense(p, body, dbOK) ==
    /\ request' = [request EXCEPT ![p] = [body |-> body, query |-> NoQuery]]
    /\ LET b == BindCreate(body)
       IN  IF b.err # NoErr
           THEN Reject(p, "create", <<>>, BadRequestBody(b.err))
           ELSE CreateExpense(p, b.req, dbOK)

\* Handler.GetExpense
HandlerGetExpense(p, id, dbOK) ==
    /\ request' = [request EXCEPT ![p] = NoRequest]
    /\ IF id = EmptyString
       THEN Reject(p, "get", id, MissingIDBody)
       ELSE GetExpense(p, id, dbOK)

\* Handler.GetAllExpenses
HandlerGetAllExpenses(p, query, dbOK) ==
    /\ request' = [request EXCEPT ![p] = [body |-> NoJSON, query |-> query]]
    /\ GetAllExpenses(p, CollectFilters(query), dbOK)

\* Handler.UpdateExpense, up to the first storage call of Service.UpdateExpense
HandlerUpdateExpense(p, id, body, dbOK) ==
    /\ request' = [request EXCEPT ![p] = [body |-> body, query |-> NoQuery]]
    /\ LET b == BindUpdate(body)
       IN  IF id = EmptyString
           THEN Reject(p, "update", id, MissingIDBody)
           ELSE IF b.err # NoErr
           THEN Reject(p, "update", id, BadRequestBody(b.err))
           ELSE UpdateExists(p, id, b.req, dbOK)

\* Handler.DeleteExpense, up to the first storage call of Service.DeleteExpense
HandlerDeleteExpense(p, id, dbOK) ==
    /\ request' = [request EXCEPT ![p] = NoRequest]
    /\ IF id = EmptyString
       THEN Reject(p, "delete", id, MissingIDBody)
       ELSE DeleteExists(p, id, dbOK)

-----------------------------------------------------------------------------
(* Spec: one caller makes any sequence of Service calls *)

\* what the caller's requests carry
Requests ==
    [Description : {EmptyString, <<"a">>}, Amount : {-1, 0, 1, 2},
     Category : {EmptyString, <<"F">>}, Date : {ZeroTime, 1}]
IDStrings == {IDString(u) : u \in UUIDs} \cup {<<"not-a-uuid">>}
Filters == {NoFilters}

Caller == CHOOSE p \in Procs : \A q \in Procs : p <= q

Next ==
    \E dbOK \in BOOLEAN :
        \/ \E req \in Requests : CreateExpense(Caller, req, dbOK) /\ UNCHANGED request
        \/ \E id \in IDStrings : GetExpense(Caller, id, dbOK) /\ UNCHANGED request
        \/ \E filters \in Filters : GetAllExpenses(Caller, filters, dbOK) /\ UNCHANGED request
        \/ \E id \in IDStrings, req \in Requests : UpdateExists(Caller, id, req, dbOK) /\ UNCHANGED request
        \/ UpdateGetByID(Caller, dbOK) /\ UNCHANGED request
        \/ UpdateSave(Caller, dbOK) /\ UNCHANGED request
        \/ \E id \in IDStrings : DeleteExists(Caller, id, dbOK) /\ UNCHANGED request
        \/ DeleteDelete(Caller, dbOK) /\ UNCHANGED request
        \/ Finish(Caller) /\ UNCHANGED request

Spec == Init /\ [][Next]_vars

-----------------------------------------------------------------------------
(* SpecConc: two requests in flight, their storage calls interleaved *)

ConcRequests ==
    {Request(<<"a">>, 1, <<"F">>, 1),
     Request(EmptyString, 2, EmptyString, ZeroTime),
     Request(EmptyString, 0, <<"f">>, ZeroTime)}

\* the one id the concurrent requests contend for
ConcIDs == {IDString(1)}

NextConc ==
    \E p \in Procs, dbOK \in BOOLEAN :
        \/ \E req \in ConcRequests : CreateExpense(p, req, dbOK) /\ UNCHANGED request
        \/ \E id \in ConcIDs : GetExpense(p, id, dbOK) /\ UNCHANGED request
        \/ \E filters \in Filters : GetAllExpenses(p, filters, dbOK) /\ UNCHANGED request
        \/ \E id \in ConcIDs, req \in ConcRequests : UpdateExists(p, id, req, dbOK) /\ UNCHANGED request
        \/ UpdateGetByID(p, dbOK) /\ UNCHANGED request
        \/ UpdateSave(p, dbOK) /\ UNCHANGED request
        \/ \E id \in ConcIDs : DeleteExists(p, id, dbOK) /\ UNCHANGED request
        \/ DeleteDelete(p, dbOK) /\ UNCHANGED request
        \/ Finish(p) /\ UNCHANGED request

SpecConc == Init /\ [][NextConc]_vars

-----------------------------------------------------------------------------
(* SpecEntity: the entity's functions, applied to every receiver and argument *)

Receivers ==
    {Expense(1, d, a, c, t, 1, 1) : d \in Texts, a \in Amounts, c \in Texts, t \in Dates}

EntityArgs == [Description : Texts, Amount : Amounts, Category : Texts, Date : Dates]

InitEntity ==
    /\ store = [u \in {} |-> NilExpense]
    /\ now = 0
    /\ nextID = 0
    /\ inflight = [p \in Procs |-> Idle]
    /\ deletions = [u \in UUIDs |-> 0]
    /\ unit \in {[NoUnit EXCEPT !.fn = "input", !.recv = r, !.args = a] :
                    r \in Receivers, a \in EntityArgs}
    /\ request = [p \in Procs |-> NoRequest]

\* domain.NewExpense(args)
CallNewExpense(id) ==
    /\ unit.fn = "input"
    /\ LET a == unit.args
           n == NewExpense(a.Description, a.Amount, a.Category, a.Date, id)
       IN  unit' = [unit EXCEPT !.fn = "NewExpense", !.out = n.exp, !.err = n.err]
    /\ UNCHANGED <<store, now, nextID, inflight, deletions, request>>

\* recv.Validate()
CallValidate ==
    /\ unit.fn = "input"
    /\ unit' = [unit EXCEPT !.fn = "Validate", !.out = unit.recv, !.err = Validate(unit.recv)]
    /\ UNCHANGED <<store, now, nextID, inflight, deletions, request>>

\* recv.Update(args)
CallUpdate ==
    /\ unit.fn = "input"
    /\ LET a == unit.args
           u == Update(unit.recv, a.Description, a.Amount, a.Category, a.Date)
       IN  unit' = [unit EXCEPT !.fn = "Update", !.out = u.exp, !.err = u.err]
    /\ UNCHANGED <<store, now, nextID, inflight, deletions, request>>

\* recv.Update(args) once more, on the entity the first call left
CallUpdateAgain ==
    /\ unit.fn = "Update"
    /\ LET a == unit.args
           u == Update(unit.out, a.Description, a.Amount, a.Category, a.Date)
       IN  unit' = [unit EXCEPT !.fn = "UpdateTwice", !.mid = unit.out,
                                !.out = u.exp, !.err = u.err]
    /\ UNCHANGED <<store, now, nextID, inflight, deletions, request>>

NextEntity ==
    \/ \E id \in UUIDs : CallNewExpense(id)
    \/ CallValidate
    \/ CallUpdate
    \/ CallUpdateAgain

SpecEntity == InitEntity /\ [][NextEntity]_vars

-----------------------------------------------------------------------------
(* SpecStore: a table that holds three expenses, queried through the Service and   *)
(* the Handler, and read and written by storage calls made on their own            *)

Food == <<"F", "o", "o", "d">>
Transport == <<"T", "r", "a", "n", "s", "p", "o", "r", "t">>

\* the dates an expense of the table may carry
TableDates == 1 .. MaxDate + 1

\* A(Food, 5), B(Food, 50), C(Transport, 20), created in this order, each on any date
Table(dateA, dateB, dateC) ==
    (1 :> Expense(1, <<"T", "e", "a">>, 5, Food, dateA, 1, 1))
    @@ (2 :> Expense(2, <<"L", "u", "n", "c", "h">>, 50, Food, dateB, 2, 2))
    @@ (3 :> Expense(3, <<"B", "u", "s">>, 20, Transport, dateC, 3, 3))

InitStore ==
    /\ store \in {Table(a, b, c) : a \in TableDates, b \in TableDates, c \in TableDates}
    /\ now = Cardinality(DOMAIN store)
    /\ nextID = Cardinality(DOMAIN store)
    /\ inflight = [p \in Procs |-> Idle]
    /\ deletions = [u \in UUIDs |-> 0]
    /\ unit = NoUnit
    /\ request = [p \in Procs |-> NoRequest]

\* the mapping that holds choice[name][1] for the names whose choice is not <<>>
MapOf(choice) ==
    [name \in {n \in DOMAIN choice : choice[n] # <<>>} |-> choice[name][1]]

\* filters a caller of the Service may pass: any key, any value type
FilterMaps ==
    {MapOf(choice) : choice \in
        [category : {<<>>, <<StringValue(EmptyString)>>,
                     <<StringValue(<<"f", "o", "o", "d">>)>>, <<StringValue(<<"_">>)>>},
         description : {<<>>, <<StringValue(<<"U">>)>>},
         date_from : {<<>>, <<StringValue(EmptyString)>>, <<StringValue(<<"date", 2>>)>>,
                      <<StringValue(<<"soon">>)>>},
         date_to : {<<>>, <<StringValue(<<"date", 2>>)>>},
         min_amount : {<<>>, <<FloatValue(0)>>, <<FloatValue(10)>>, <<FloatValue(20)>>},
         max_amount : {<<>>, <<FloatValue(-5)>>, <<FloatValue(20)>>},
         sort : {<<>>, <<StringValue(<<"a">>)>>}]}

\* query strings a client may send
QueryStrings ==
    {MapOf(choice) : choice \in
        [category : {<<>>, <<EmptyString>>, << <<"f", "o", "o", "d">> >>},
         date_from : {<<>>, <<EmptyString>>},
         min_amount : {<<>>, << <<"1", "0">> >>, << <<"a", "b", "c">> >>, << <<"-", "5">> >>},
         max_amount : {<<>>, << <<"2", "0">> >>, << <<"2", "0", "x">> >>},
         sort : {<<>>, << <<"a">> >>}]}

\* the id a storage call is made with on its own
StoreIDs == {IDString(1), <<"not-a-uuid">>}

\* Repository.GetByID called on its own
CallGetByID(p, id, dbOK) ==
    /\ Ready(p)
    /\ LET g == RepoGetByID(store, id, dbOK)
       IN  inflight' = [inflight EXCEPT ![p] =
                [Idle EXCEPT !.pc = "done", !.op = "Repository.GetByID", !.id = id,
                             !.exp = g.exp, !.err = g.err, !.calls = <<"GetByID">>]]
    /\ UNCHANGED <<store, now, nextID, deletions, unit, request>>

\* Repository.Exists called on its own
CallExists(p, id, dbOK) ==
    /\ Ready(p)
    /\ LET x == RepoExists(store, id, dbOK)
       IN  inflight' = [inflight EXCEPT ![p] =
                [Idle EXCEPT !.pc = "done", !.op = "Repository.Exists", !.id = id,
                             !.exists = x.exists, !.err = x.err, !.calls = <<"Exists">>]]
    /\ UNCHANGED <<store, now, nextID, deletions, unit, request>>

\* Repository.Delete called on its own
CallDelete(p, id, dbOK) ==
    /\ Ready(p)
    /\ LET d == RepoDelete(store, id, dbOK)
       IN  /\ store' = d.store
           /\ inflight' = [inflight EXCEPT ![p] =
                [Idle EXCEPT !.pc = "done", !.op = "Repository.Delete", !.id = id,
                             !.err = d.err, !.calls = <<"Delete">>]]
    /\ UNCHANGED <<now, nextID, deletions, unit, request>>

\* the response is written: the goroutine and its request end
HandlerFinish(p) ==
    /\ Finish(p)
    /\ request' = [request EXCEPT ![p] = NoRequest]

NextStore ==
    \E dbOK \in BOOLEAN :
        \/ /\ Ready(Caller)
           /\ \E filters \in FilterMaps : GetAllExpenses(Caller, filters, dbOK)
           /\ UNCHANGED request
        \/ /\ Ready(Caller)
           /\ \E query \in QueryStrings : HandlerGetAllExpenses(Caller, query, dbOK)
        \/ \E id \in StoreIDs : CallGetByID(Caller, id, dbOK)
        \/ \E id \in StoreIDs : CallExists(Caller, id, dbOK)
        \/ \E id \in StoreIDs : CallDelete(Caller, id, dbOK)
        \/ HandlerFinish(Caller)

SpecStore == InitStore /\ [][NextStore]_vars

-----------------------------------------------------------------------------
(* Concurrent deletes: over a table that holds rows, each goroutine serves one
   DELETE /expenses/:id, and the two run concurrently. *)

\* the ids the two deletes are asked for
DeleteIDs == {IDString(1), IDString(2), <<"not-a-uuid">>}

NextDeletes ==
    \E p \in Procs, dbOK \in BOOLEAN :
        \/ \E id \in DeleteIDs : DeleteExists(p, id, dbOK) /\ UNCHANGED request
        \/ DeleteDelete(p, dbOK) /\ UNCHANGED request

SpecDeletes == InitStore /\ [][NextDeletes]_vars

-----------------------------------------------------------------------------
(* SpecHTTP: one client sends any sequence of requests to the five endpoints *)

\* the bodies of POST /expenses and PUT /expenses/:id
Bodies ==
    {JSONBody(<<<<"a">>>>, <<1>>, <<<<"F">>>>, <<JSONDate(1, "Z")>>),
     JSONBody(<<<<"a">>>>, <<1>>, <<<<"F">>>>, <<JSONDate(ZeroTime, "Z")>>),
     JSONBody(<<<<"a">>>>, <<1>>, <<<<"F">>>>, <<JSONDate(ZeroTime, "+00:00")>>),
     JSONBody(<<<<"a">>>>, <<1>>, <<<<"F">>>>, <<>>),
     JSONBody(<<<<"a">>>>, <<1>>, <<>>, <<JSONDate(1, "Z")>>),
     JSONBody(<<<<"a">>>>, <<0>>, <<<<"F">>>>, <<JSONDate(1, "Z")>>),
     JSONBody(<<<<"a">>>>, <<-1>>, <<<<"F">>>>, <<JSONDate(1, "Z")>>),
     JSONBody(<<<<"a">>>>, <<>>, <<<<"F">>>>, <<JSONDate(1, "Z")>>),
     JSONBody(<<EmptyString>>, <<1>>, <<<<"F">>>>, <<JSONDate(1, "Z")>>),
     JSONBody(<<>>, <<1>>, <<<<"F">>>>, <<JSONDate(1, "Z")>>),
     JSONBody(<<>>, <<2>>, <<>>, <<>>),
     JSONBody(<<>>, <<>>, <<>>, <<>>),
     MalformedJSON}

\* the query strings of GET /expenses
Queries ==
    {NoQuery,
     ("category" :> <<"f">>) @@ ("min_amount" :> <<"a", "b", "c">>)}

NextHTTP ==
    \E dbOK \in BOOLEAN :
        \/ /\ Ready(Caller)
           /\ \E body \in Bodies : HandlerCreateExpense(Caller, body, dbOK)
        \/ \E id \in IDStrings : HandlerGetExpense(Caller, id, dbOK)
        \/ \E query \in Queries : HandlerGetAllExpenses(Caller, query, dbOK)
        \/ /\ Ready(Caller)
           /\ \E id \in IDStrings, body \in Bodies :
                HandlerUpdateExpense(Caller, id, body, dbOK)
        \/ UpdateGetByID(Caller, dbOK) /\ UNCHANGED request
        \/ UpdateSave(Caller, dbOK) /\ UNCHANGED request
        \/ \E id \in IDStrings : HandlerDeleteExpense(Caller, id, dbOK)
        \/ DeleteDelete(Caller, dbOK) /\ UNCHANGED request
        \/ HandlerFinish(Caller)

SpecHTTP == Init /\ [][NextHTTP]_vars

-----------------------------------------------------------------------------
(* Claims *)

Done(p) == inflight[p].pc = "done"

\* the invariants of section 3 of the specification, for an entity and for an input
IsValid(e) ==
    /\ e.Description # EmptyString
    /\ e.Amount > 0
    /\ e.Category # EmptyString
    /\ e.Date # ZeroTime

IsValidRequest(req) ==
    /\ req.Description # EmptyString
    /\ req.Amount > 0
    /\ req.Category # EmptyString
    /\ req.Date # ZeroTime

\* the uuid an id string stands for (NilUUID when it is no uuid)
UuidOf(id) == IF Len(id) = 2 /\ id[1] = "uuid" THEN id[2] ELSE NilUUID

\* C1: after any sequence of CreateExpense, UpdateExpense and DeleteExpense calls,
\* successful or failing, every expense in the store has a non-empty description, a
\* non-empty category, amount > 0 and a non-zero date.
C1_StoredExpensesValid ==
    \A u \in DOMAIN store :
        /\ store[u].Description # EmptyString
        /\ store[u].Amount > 0
        /\ store[u].Category # EmptyString
        /\ store[u].Date # ZeroTime

\* C1 witness: an update that carried a non-positive amount has returned success
\* and the store holds a row.
C1_Witness ==
    /\ Done(Caller)
    /\ inflight[Caller].op = "update"
    /\ inflight[Caller].err = NoErr
    /\ inflight[Caller].req.Amount <= 0
    /\ DOMAIN store # {}

\* C2: GET /expenses/{id} with a well-formed id that has no record is answered 404:
\* whenever GetExpense returns an error of the NotFound kind for an id without a
\* row, the Handler's status is 404.
C2_GetAbsentIs404 ==
    \A p \in Procs :
        (/\ Done(p)
         /\ inflight[p].op = "get"
         /\ UuidOf(inflight[p].id) # NilUUID
         /\ UuidOf(inflight[p].id) \notin DOMAIN store
         /\ IsNotFound(inflight[p].err))
        => inflight[p].status = 404

UpdateCalls == <<"Exists", "GetByID", "Update">>

\* C3, in every state: an UpdateExpense call has made a prefix of exists, getByID,
\* update, in that order; it went on to the next call only after the previous one
\* succeeded, so a call that ended early ended with that step's error.
C3_CallsInOrder ==
    \A p \in Procs :
        LET f == inflight[p]
        IN  f.op = "update" =>
              /\ f.calls # <<>>
              /\ f.calls = SubSeq(UpdateCalls, 1, Len(f.calls))
              /\ f.pc = "update:GetByID" => f.calls = <<"Exists">>
              /\ f.pc = "update:Update" => f.calls = <<"Exists", "GetByID">>
              /\ (f.pc = "done" /\ f.err = NoErr) => f.calls = UpdateCalls
              /\ (f.pc = "done" /\ Len(f.calls) = 1) =>
                    \/ f.err = ErrExpenseNotFound
                    \/ f.err.text[1] = "failed to check expense existence"
              /\ (f.pc = "done" /\ Len(f.calls) = 2) =>
                    f.err.text[1] \in {"failed to get expense", "failed to update expense"}
              /\ (f.pc = "done" /\ Len(f.calls) = 3 /\ f.err # NoErr) =>
                    f.err.text[1] = "failed to save updated expense"

\* C3, in every step of an UpdateExpense call: the exists and getByID steps leave the
\* store alone; for an id without a row the call ends at the exists step, with
\* NotFound and status 404 unless the storage call itself failed; only the update
\* step writes, and it writes the entity the call returns.
C3_StepsOfUpdate ==
    \A p \in Procs :
        LET f == inflight[p]
            g == inflight'[p]
        IN  /\ (f.pc = "idle" /\ g.op = "update") =>
                  /\ store' = store
                  /\ g.pc = "update:GetByID" => UuidOf(g.id) \in DOMAIN store
                  /\ UuidOf(g.id) \notin DOMAIN store =>
                        /\ g.pc = "done"
                        /\ g.calls = <<"Exists">>
                        /\ g.err # NoErr
                        /\ g.exp = NilExpense
                        /\ (UuidOf(g.id) # NilUUID /\ g.err.kind # "Storage") =>
                              (g.err = ErrExpenseNotFound /\ g.status = 404)
            /\ (f.pc = "update:GetByID" /\ g.pc # f.pc) => store' = store
            /\ (f.pc = "update:Update" /\ g.pc = "done") =>
                  IF g.err = NoErr
                  THEN /\ g.exp.ID \in DOMAIN store'
                       /\ store'[g.exp.ID] = g.exp
                       /\ \A u \in (DOMAIN store) \ {g.exp.ID} :
                            u \in DOMAIN store' /\ store'[u] = store[u]
                  ELSE store' = store

\* C3: UpdateExpense calls the store in the order exists, getByID, update, each step
\* only after the previous one succeeded; when exists(id) is false it returns NotFound
\* (PUT answers 404) without calling getByID or update and leaves the store unchanged.
C3_UpdateSequence == []C3_CallsInOrder /\ [][C3_StepsOfUpdate]_vars

\* C3 witness: an update of an id without a row has ended at the exists step with
\* NotFound, while the store holds another row.
C3_Witness ==
    /\ Done(Caller)
    /\ inflight[Caller].op = "update"
    /\ inflight[Caller].calls = <<"Exists">>
    /\ inflight[Caller].err = ErrExpenseNotFound
    /\ inflight[Caller].status = 404
    /\ DOMAIN store # {}

\* C4, in every step of a DeleteExpense call: the exists step leaves the store alone
\* and, for an id without a row, ends the call with an error (NotFound and status 404
\* unless the storage call itself failed), never success; a delete step that returns
\* success has removed the row of that id and no other row.
C4_StepsOfDelete ==
    \A p \in Procs :
        LET f == inflight[p]
            g == inflight'[p]
        IN  /\ (f.pc = "idle" /\ g.op = "delete") =>
                  /\ store' = store
                  /\ g.pc = "delete:Delete" => UuidOf(g.id) \in DOMAIN store
                  /\ UuidOf(g.id) \notin DOMAIN store =>
                        /\ g.pc = "done"
                        /\ g.calls = <<"Exists">>
                        /\ g.err # NoErr
                        /\ g.status # 200
                        /\ (UuidOf(g.id) # NilUUID /\ g.err.kind # "Storage") =>
                              (g.err = ErrExpenseNotFound /\ g.status = 404)
            /\ (f.pc = "delete:Delete" /\ g.pc = "done") =>
                  /\ g.calls = <<"Exists", "Delete">>
                  /\ IF g.err = NoErr
                     THEN /\ UuidOf(g.id) \in DOMAIN store
                          /\ DOMAIN store' = (DOMAIN store) \ {UuidOf(g.id)}
                          /\ \A u \in DOMAIN store' : store'[u] = store[u]
                          /\ g.status = 200
                     ELSE store' = store

\* C4: DeleteExpense checks exists(id) first and only then calls delete; for an id
\* with no record it returns NotFound (DELETE answers 404), never a silent success,
\* and the store is unchanged; for an existing id it removes exactly that record.
C4_DeleteSequence == [][C4_StepsOfDelete]_vars

\* C4 witness: one delete has succeeded, a later delete of an id without a row was
\* answered 404, and another row is still in the store.
C4_Witness ==
    /\ \E u \in UUIDs : deletions[u] = 1
    /\ Done(Caller)
    /\ inflight[Caller].op = "delete"
    /\ inflight[Caller].err = ErrExpenseNotFound
    /\ inflight[Caller].status = 404
    /\ DOMAIN store # {}

\* C5: UpdateExpense and DeleteExpense answer 404 whenever the record is absent,
\* whichever storage call discovers it: every such call that ends with an error of
\* the NotFound kind is answered 404, never with a generic server error.
C5_AbsentIsAlways404 ==
    \A p \in Procs :
        (/\ Done(p)
         /\ inflight[p].op \in {"update", "delete"}
         /\ IsNotFound(inflight[p].err))
        => inflight[p].status = 404

ListRows(list) == {list[i] : i \in DOMAIN list}

\* C6, in every state: a GetExpense of an id whose delete succeeded fails with the
\* NotFound kind (unless the storage call itself failed), and a GetAllExpenses lists
\* no deleted id and, without filters, exactly the rows of the store.
C6_DeletedStaysGone ==
    \A p \in Procs :
        LET f == inflight[p]
        IN  /\ (/\ f.pc = "done"
                /\ f.op = "get"
                /\ UuidOf(f.id) \in UUIDs
                /\ deletions[UuidOf(f.id)] > 0) =>
                  /\ f.exp = NilExpense
                  /\ IsNotFound(f.err) \/ f.err.kind = "Storage"
            /\ (f.pc = "done" /\ f.op = "getAll" /\ f.err = NoErr) =>
                  /\ \A row \in ListRows(f.list) : deletions[row.ID] = 0
                  /\ f.filters = NoFilters => ListRows(f.list) = Rows(store)
                  /\ Len(f.list) = Cardinality(ListRows(f.list))

\* C6, in every step: a delete that returns success leaves every other row as it was.
C6_DeleteKeepsOthers ==
    \A p \in Procs :
        (/\ inflight[p].pc = "delete:Delete"
         /\ inflight'[p].pc = "done"
         /\ inflight'[p].err = NoErr) =>
            /\ UuidOf(inflight[p].id) \notin DOMAIN store'
            /\ \A u \in (DOMAIN store) \ {UuidOf(inflight[p].id)} :
                    u \in DOMAIN store' /\ store'[u] = store[u]

\* C6: after DeleteExpense(id) succeeds, a later GetExpense(id) fails with the
\* NotFound kind and GetAllExpenses no longer contains that id, while all other
\* records are still returned unchanged.
C6_DeleteThenFetch == []C6_DeletedStaysGone /\ [][C6_DeleteKeepsOthers]_vars

\* C6 witness: after a successful delete, GetExpense of that id has failed with the
\* NotFound kind while another row is in the store.
C6_Witness ==
    /\ Done(Caller)
    /\ inflight[Caller].op = "get"
    /\ UuidOf(inflight[Caller].id) \in UUIDs
    /\ deletions[UuidOf(inflight[Caller].id)] = 1
    /\ IsNotFound(inflight[Caller].err)
    /\ DOMAIN store # {}

\* C7: for every valid input NewExpense succeeds (CreateExpense reaches the store and
\* returns no validation error) and, when the insert succeeds, the entity returned
\* carries description, amount, category and date exactly as given and is the row
\* the store holds under its id.
C7_CreateReturnsInputs ==
    \A p \in Procs :
        LET f == inflight[p]
        IN  (f.pc = "done" /\ f.op = "create" /\ IsValidRequest(f.req)) =>
              /\ f.calls = <<"Create">>
              /\ f.err.kind \in {"nil", "Storage"}
              /\ f.err = NoErr =>
                    /\ f.exp.Description = f.req.Description
                    /\ f.exp.Amount = f.req.Amount
                    /\ f.exp.Category = f.req.Category
                    /\ f.exp.Date = f.req.Date
                    /\ f.exp.ID \in DOMAIN store
                    /\ store[f.exp.ID] = f.exp

\* C7 witness: a create with valid input has returned its entity.
C7_Witness ==
    /\ Done(Caller)
    /\ inflight[Caller].op = "create"
    /\ IsValidRequest(inflight[Caller].req)
    /\ inflight[Caller].err = NoErr
    /\ inflight[Caller].exp.ID \in DOMAIN store

\* the first rule an input violates, in the order description, amount, category, date
FirstViolatedRule(a) ==
    CASE a.Description = EmptyString -> "InvalidDescription"
      [] a.Description # EmptyString /\ a.Amount <= 0 -> "InvalidAmount"
      [] a.Description # EmptyString /\ a.Amount > 0 /\ a.Category = EmptyString ->
            "InvalidCategory"
      [] OTHER -> "InvalidDate"

\* C8: for every input that violates a rule NewExpense returns no entity and the
\* error of the first violated rule in the order description, amount, category, date.
C8_FirstViolatedRule ==
    (unit.fn = "NewExpense" /\ ~IsValidRequest(unit.args)) =>
        /\ unit.out = NilExpense
        /\ unit.err.kind = FirstViolatedRule(unit.args)

\* C8 witness: an empty description together with amount 0 gave InvalidDescription.
C8_Witness ==
    /\ unit.fn = "NewExpense"
    /\ unit.args.Description = EmptyString
    /\ unit.args.Amount = 0
    /\ unit.err = ErrInvalidDescription

\* C9: Expense.Update replaces a field exactly when its argument is present and
\* leaves every other field, and id, created_at and updated_at, unchanged.
C9_UpdateReplacesPresent ==
    unit.fn = "Update" =>
        LET a == unit.args
            e == unit.recv
            o == unit.out
        IN  /\ o.Description = IF a.Description # EmptyString THEN a.Description
                                                              ELSE e.Description
            /\ o.Amount = IF a.Amount > 0 THEN a.Amount ELSE e.Amount
            /\ o.Category = IF a.Category # EmptyString THEN a.Category ELSE e.Category
            /\ o.Date = IF a.Date # ZeroTime THEN a.Date ELSE e.Date
            /\ o.ID = e.ID
            /\ o.CreatedAt = e.CreatedAt
            /\ o.UpdatedAt = e.UpdatedAt

\* C9 witness: an update with only an amount changed the amount and nothing else.
C9_Witness ==
    /\ unit.fn = "Update"
    /\ unit.args.Amount > 0
    /\ unit.args.Description = EmptyString
    /\ unit.args.Category = EmptyString
    /\ unit.args.Date = ZeroTime
    /\ unit.out.Amount # unit.recv.Amount
    /\ unit.out = [unit.recv EXCEPT !.Amount = unit.args.Amount]

\* C10: an empty partial update of a valid entity returns ok and changes no field;
\* applying any partial update twice gives the entity that applying it once gives.
C10_EmptyAndIdempotent ==
    /\ (unit.fn = "Update" /\ unit.args = ZeroRequest /\ IsValid(unit.recv)) =>
            (unit.err = NoErr /\ unit.out = unit.recv)
    /\ unit.fn = "UpdateTwice" => unit.out = unit.mid

\* C10 witness: an update that changed the entity was applied a second time.
C10_Witness ==
    /\ unit.fn = "UpdateTwice"
    /\ unit.args # ZeroRequest
    /\ unit.mid # unit.recv
    /\ IsValid(unit.recv)

\* a partial update that supplies an amount and nothing else
AmountOnly(req) ==
    /\ req.Amount > 0
    /\ req.Description = EmptyString
    /\ req.Category = EmptyString
    /\ req.Date = ZeroTime

\* C11, in every state: an expense a CreateExpense returns is the stored row and has
\* the request's fields, and what a successful GetExpense returns is the stored row.
C11_CreatedAndFetchedAreStored ==
    \A p \in Procs :
        /\ (Done(p) /\ inflight[p].op = "create" /\ inflight[p].err = NoErr) =>
                LET e == inflight[p].exp
                IN  /\ e.ID \in DOMAIN store /\ store[e.ID] = e
                    /\ e.Description = inflight[p].req.Description
                    /\ e.Amount = inflight[p].req.Amount
                    /\ e.Category = inflight[p].req.Category
                    /\ e.Date = inflight[p].req.Date
        /\ (Done(p) /\ inflight[p].op = "get" /\ inflight[p].err = NoErr) =>
                /\ UuidOf(inflight[p].id) \in DOMAIN store
                /\ inflight[p].exp = store[UuidOf(inflight[p].id)]

\* C11, in every step: when an UpdateExpense that supplies only an amount returns
\* success, the stored row has the new amount and the id, description, category and
\* date it had before, and the returned entity is that row.
C11_AmountOnlyStep ==
    \A p \in Procs :
        (/\ inflight[p].pc = "update:Update"
         /\ AmountOnly(inflight[p].req)
         /\ inflight'[p].pc = "done"
         /\ inflight'[p].err = NoErr) =>
            LET u == UuidOf(inflight[p].id)
            IN  /\ u \in DOMAIN store /\ u \in DOMAIN store'
                /\ store'[u].Amount = inflight[p].req.Amount
                /\ store'[u].ID = store[u].ID
                /\ store'[u].Description = store[u].Description
                /\ store'[u].Category = store[u].Category
                /\ store'[u].Date = store[u].Date
                /\ inflight'[p].exp = store'[u]
                /\ \A v \in DOMAIN store \ {u} : v \in DOMAIN store' /\ store'[v] = store[v]

\* C11: creating an expense, then UpdateExpense with only amount supplied, then
\* GetExpense by id yields an entity whose amount is the new amount and whose id,
\* description, category and date equal the values at creation.
C11_UpdateAmountThenFetch == []C11_CreatedAndFetchedAreStored /\ [][C11_AmountOnlyStep]_vars

\* C11 witness: a GetExpense returned an expense whose amount an amount-only update
\* had changed after its creation.
C11_Witness ==
    \E p \in Procs :
        /\ Done(p) /\ inflight[p].op = "get" /\ inflight[p].err = NoErr
        /\ inflight[p].exp.Amount = 2
        /\ inflight[p].exp.Description = <<"a">>
        /\ inflight[p].exp.UpdatedAt > inflight[p].exp.CreatedAt

\* the six criteria GetAll knows
Recognised ==
    {"category", "description", "date_from", "date_to", "min_amount", "max_amount"}

\* a criterion that is to be ignored: an unrecognised key, a bound that is <= 0, an
\* empty text or date
Ignored(key, value) ==
    \/ key \notin Recognised
    \/ key \in {"min_amount", "max_amount"} /\ value.type = "float64" /\ value.val <= 0
    \/ key \notin {"min_amount", "max_amount"} /\ value.type = "string"
       /\ value.val = EmptyString

\* part occurs in text, letter case aside
ContainsFold(text, part) ==
    \E i \in 0 .. Len(text) - Len(part) :
        \A j \in 1 .. Len(part) : Lower(text[i + j]) = Lower(part[j])

\* the row meets the criterion, as section 4.3 of the specification reads it
Satisfies(key, value, row) ==
    CASE key = "category" -> ContainsFold(row.Category, value.val)
      [] key = "description" -> ContainsFold(row.Description, value.val)
      [] key = "date_from" -> row.Date >= value.val[2]
      [] key = "date_to" -> row.Date <= value.val[2]
      [] key = "min_amount" -> row.Amount >= value.val
      [] key = "max_amount" -> row.Amount <= value.val

\* filters without the entries that are to be ignored
Effective(filters) ==
    [key \in {k \in DOMAIN filters : ~Ignored(k, filters[k])} |-> filters[key]]

\* C12: a GetAll that succeeds returns, once each, exactly the stored expenses that
\* satisfy every provided criterion (category and description as case-insensitive
\* substring, the dates and amounts as inclusive bounds); of A(Food, 5), B(Food, 50),
\* C(Transport, 20) the filter category=food & min_amount=10 returns exactly B, and no
\* filters return every record.
C12_GetAllIsExactlyTheMatches ==
    \A p \in Procs :
        (Done(p) /\ inflight[p].op = "getAll" /\ inflight[p].err = NoErr) =>
            LET filters == inflight[p].filters
                list == inflight[p].list
            IN  /\ ListRows(list) =
                        {row \in Rows(store) :
                            \A key \in DOMAIN Effective(filters) :
                                Satisfies(key, filters[key], row)}
                /\ Len(list) = Cardinality(ListRows(list))
                /\ (/\ DOMAIN store = {1, 2, 3}
                    /\ filters = ("category" :> StringValue(<<"f", "o", "o", "d">>))
                                 @@ ("min_amount" :> FloatValue(10))) =>
                        {row.ID : row \in ListRows(list)} = {2}
                /\ filters = NoFilters => ListRows(list) = Rows(store)

\* C13: in a GetAll that succeeds, a min_amount or max_amount that is <= 0, an empty
\* text or date criterion and a criterion with an unrecognised key are ignored: the
\* result is the result of the same query without those criteria.
C13_IgnoredCriteria ==
    \A p \in Procs :
        (Done(p) /\ inflight[p].op = "getAll" /\ inflight[p].err = NoErr) =>
            ListRows(inflight[p].list) = Selected(store, Effective(inflight[p].filters))

\* C13 witness: a query whose every criterion is one to be ignored, a non-positive
\* max_amount among them, returned the whole table.
C13_Witness ==
    \E p \in Procs :
        /\ Done(p) /\ inflight[p].op = "getAll" /\ inflight[p].err = NoErr
        /\ DOMAIN inflight[p].filters = {"category", "date_from", "min_amount", "max_amount", "sort"}
        /\ Effective(inflight[p].filters) = NoFilters
        /\ inflight[p].filters["max_amount"].val < 0
        /\ Len(inflight[p].list) = 3

\* C14: whatever dates the expenses carry and whatever filters are given, the list
\* GetAllExpenses returns is sorted descending by date: of two adjacent results the
\* earlier one's date is >= the later one's, and > when all stored dates differ.
C14_SortedByDateDesc ==
    \A p \in Procs :
        (Done(p) /\ inflight[p].op = "getAll" /\ inflight[p].err = NoErr) =>
            LET list == inflight[p].list
                distinct == \A u, v \in DOMAIN store :
                                u # v => store[u].Date # store[v].Date
            IN  \A i \in 1 .. Len(list) - 1 :
                    /\ list[i].Date >= list[i + 1].Date
                    /\ distinct => list[i].Date > list[i + 1].Date

\* C14 witness: three expenses with distinct dates, the one created second carrying
\* the latest date and the one created last the earliest, were listed.
C14_Witness ==
    \E p \in Procs :
        /\ Done(p) /\ inflight[p].op = "getAll" /\ inflight[p].err = NoErr
        /\ Len(inflight[p].list) = 3
        /\ inflight[p].list[1].ID = 2
        /\ inflight[p].list[3].ID = 3
        /\ inflight[p].list[1].Date > inflight[p].list[2].Date
        /\ inflight[p].list[2].Date > inflight[p].list[3].Date

\* an id string that is no uuid
Malformed(id) == UuidOf(id) = NilUUID

StorageCalls == {"Repository.GetByID", "Repository.Exists", "Repository.Delete"}

\* C18, in every state: getByID, exists and delete given an id that does not parse
\* have failed with the invalid-identifier kind, which is not NotFound, whether or
\* not the database can be reached, and returned no entity.
C18_MalformedIsInvalid ==
    \A p \in Procs :
        (Done(p) /\ inflight[p].op \in StorageCalls /\ Malformed(inflight[p].id)) =>
            /\ inflight[p].err # NoErr
            /\ inflight[p].err.kind = "InvalidUUID"
            /\ ~IsNotFound(inflight[p].err)
            /\ inflight[p].err.text # <<"expense not found">>
            /\ inflight[p].exp = NilExpense

\* C18, in every step: such a call leaves the store as it was.
C18_MalformedStep ==
    \A p \in Procs :
        (/\ inflight'[p].pc = "done" /\ inflight[p].pc = "idle"
         /\ inflight'[p].op \in StorageCalls
         /\ Malformed(inflight'[p].id)) => store' = store

\* C18: an identifier that does not parse as a valid identifier makes getByID, exists
\* and delete fail with an invalid-identifier condition that is distinct from NotFound
\* (never NotFound, never a plain exists = false), without changing the store.
C18_MalformedIdentifier == []C18_MalformedIsInvalid /\ [][C18_MalformedStep]_vars

\* C18 witness: a delete was called with an id that is no uuid while rows were stored.
C18_Witness ==
    \E p \in Procs :
        /\ Done(p) /\ inflight[p].op = "Repository.Delete"
        /\ inflight[p].id = <<"not-a-uuid">>
        /\ DOMAIN store = {1, 2, 3}

\* a text that strconv.ParseFloat reads as a number: digits, a minus sign before them
IsNumeral(s) ==
    LET digits == IF s # <<>> /\ s[1] = "-" THEN Tail(s) ELSE s
    IN  /\ digits # <<>>
        /\ \A i \in DOMAIN digits :
              digits[i] \in {"0", "1", "2", "3", "4", "5", "6", "7", "8", "9"}

\* C19: GET /expenses puts into the filter mapping only the recognised parameters of
\* the query string that are not empty, a min_amount or max_amount only when it reads
\* as a number; a parameter left out never fails the request: unless the storage call
\* fails the answer is 200 with the result of the query without that parameter.
C19_QueryParameters ==
    \A p \in Procs :
        (Done(p) /\ inflight[p].op = "getAll" /\ request[p].query # NoQuery) =>
            LET query == request[p].query
                filters == inflight[p].filters
                kept == {name \in DOMAIN query \cap Recognised :
                            /\ query[name] # EmptyString
                            /\ name \in {"min_amount", "max_amount"} => IsNumeral(query[name])}
            IN  /\ DOMAIN filters = kept
                /\ \A name \in kept \ {"min_amount", "max_amount"} :
                        filters[name] = StringValue(query[name])
                /\ \A name \in kept \cap {"min_amount", "max_amount"} :
                        /\ filters[name].type = "float64"
                        /\ query[name] = <<"1", "0">> => filters[name].val = 10
                        /\ query[name] = <<"2", "0">> => filters[name].val = 20
                        /\ query[name] = <<"-", "5">> => filters[name].val = -5
                /\ inflight[p].err # NoErr => inflight[p].err.kind = "Storage"
                /\ inflight[p].err = NoErr =>
                        /\ inflight[p].status = 200
                        /\ ListRows(inflight[p].list) =
                                Selected(store, [name \in kept |-> filters[name]])

\* C19 witness: a request with category=food, a min_amount and a max_amount that are
\* no numbers and a parameter the Handler does not know was answered 200 with the two
\* Food expenses.
C19_Witness ==
    \E p \in Procs :
        /\ Done(p) /\ inflight[p].op = "getAll" /\ inflight[p].status = 200
        /\ DOMAIN request[p].query = {"category", "min_amount", "max_amount", "sort"}
        /\ request[p].query["min_amount"] = <<"a", "b", "c">>
        /\ request[p].query["max_amount"] = <<"2", "0", "x">>
        /\ DOMAIN inflight[p].filters = {"category"}
        /\ {row.ID : row \in ListRows(inflight[p].list)} = {1, 2}

\* C15: a validation error the entity layer raised during POST /expenses, returned
\* by the Service, is answered by the Handler with 400, not with a server error.
C15_ValidationErrorIs400 ==
    \A p \in Procs :
        (/\ Done(p) /\ inflight[p].op = "create"
         /\ inflight[p].err # NoErr
         /\ inflight[p].err.kind \in ValidationKinds) => inflight[p].status = 400

\* the body of the request fails parsing or binding, as the claim lists the cases
FailsBinding(op, body) ==
    \/ body.json # "object"
    \/ /\ op = "create"
       /\ \/ body.Description = <<>> \/ body.Amount = <<>>
          \/ body.Category = <<>> \/ body.Date = <<>>
          \/ body.Amount # <<>> /\ body.Amount[1] <= 0

\* C16, in every state: a POST or PUT whose body fails parsing or binding has been
\* answered 400 with no storage call made and no Service result.
C16_RejectedBeforeService ==
    \A p \in Procs :
        (/\ Done(p) /\ inflight[p].op \in {"create", "update"}
         /\ FailsBinding(inflight[p].op, request[p].body)) =>
            /\ inflight[p].status = 400
            /\ inflight[p].calls = <<>>
            /\ inflight[p].err = NoErr
            /\ inflight[p].exp = NilExpense

\* C16, in every step: answering such a request changes neither the store nor the
\* clock nor the ids handed out.
C16_RejectStep ==
    \A p \in Procs :
        (/\ inflight[p].pc = "idle" /\ inflight'[p].pc = "done"
         /\ inflight'[p].op \in {"create", "update"}
         /\ FailsBinding(inflight'[p].op, request'[p].body)) =>
            /\ store' = store
            /\ now' = now
            /\ nextID' = nextID

\* C16: a POST /expenses or PUT /expenses/{id} whose body fails structural parsing or
\* binding (malformed JSON; for POST also a missing field or amount <= 0) is answered
\* with 400 and the Service is never called, so the store is unchanged.
C16_BadBodyIs400 == []C16_RejectedBeforeService /\ [][C16_RejectStep]_vars

\* C16 witness: with an expense stored, a POST whose amount is negative was answered
\* 400.
C16_Witness ==
    \E p \in Procs :
        /\ Done(p) /\ inflight[p].op = "create" /\ inflight[p].status = 400
        /\ request[p].body.json = "object"
        /\ request[p].body.Amount = <<-1>>
        /\ DOMAIN store # {}

\* the messages of the 500 responses
FixedMessages ==
    {"Failed to create expense", "Failed to get expense", "Failed to get expenses",
     "Failed to update expense", "Failed to delete expense"}

C20_EntityOrError ==
    \A p \in Procs :
        Done(p) =>
            LET f == inflight[p]
            IN  /\ f.err # NoErr => (f.exp = NilExpense /\ f.list = <<>>)
                /\ (f.err = NoErr /\ f.calls # <<>> /\ f.op \in {"create", "get", "update"}) =>
                        /\ f.exp # NilExpense
                        /\ IsValid(f.exp)
                        /\ f.exp.ID \in DOMAIN store /\ store[f.exp.ID] = f.exp
                        /\ f.exp.CreatedAt # ZeroTime /\ f.exp.UpdatedAt # ZeroTime
                /\ f.status >= 400 => "data" \notin DOMAIN f.body
                /\ (f.status \in {200, 201} /\ f.op # "delete") =>
                        /\ "data" \in DOMAIN f.body
                        /\ f.body.data = IF f.op = "getAll" THEN f.list ELSE f.exp

\* C20 witness: an update found and changed its entity, the save failed, and the
\* answer was a 500.
C20_Witness ==
    \E p \in Procs :
        /\ Done(p) /\ inflight[p].op = "update"
        /\ inflight[p].calls = <<"Exists", "GetByID", "Update">>
        /\ inflight[p].err # NoErr
        /\ inflight[p].status = 500

\* the storage calls of each Service operation, in the order the code makes them
CallsOf(op) ==
    CASE op = "create" -> <<"Create">>
      [] op = "get" -> <<"GetByID">>
      [] op = "getAll" -> <<"GetAll">>
      [] op = "update" -> UpdateCalls
      [] op = "delete" -> <<"Exists", "Delete">>

\* C21, in every state: the storage calls an operation has made are a prefix of its
\* calls, so none was made twice; an operation that returned an error returned the
\* error of its last call, wrapped, or NotFound from its exists step.
C21_NoCallTwice ==
    \A p \in Procs :
        LET f == inflight[p]
        IN  f.op # "none" =>
              /\ Len(f.calls) <= Len(CallsOf(f.op))
              /\ f.calls = SubSeq(CallsOf(f.op), 1, Len(f.calls))
              /\ f.err # NoErr => f.pc = "done"
              /\ (f.pc = "done" /\ f.err = NoErr) => f.calls = CallsOf(f.op)

\* C21, in every step of an operation: it makes at most one storage call, and when
\* the call fails the operation is over in that same step, with the store as it was;
\* an operation that has returned makes no further call.
C21_OneCallPerStep ==
    \A p \in Procs :
        LET f == inflight[p]
            g == inflight'[p]
        IN  g # f =>
              /\ f.pc = "done" => g.pc = "idle"
              /\ g.pc # "idle" =>
                    /\ Len(g.calls) <= Len(f.calls) + 1
                    /\ g.err # NoErr => (g.pc = "done" /\ store' = store)
                    /\ (g.pc # "done") => g.err = NoErr

\* C21: no Service operation retries: each operation invokes each storage call at
\* most once, and as soon as one storage call fails the operation returns that failure
\* to the caller without invoking any further storage call.
C21_NoRetries == []C21_NoCallTwice /\ [][C21_OneCallPerStep]_vars

\* C21 witness: while the other request was mid-way, an update whose getByID failed in
\* the store returned after exists and getByID, the save never made.
C21_Witness ==
    \E p, q \in Procs :
        /\ p # q
        /\ Done(p) /\ inflight[p].op = "update"
        /\ inflight[p].calls = <<"Exists", "GetByID">>
        /\ inflight[p].err.kind = "Storage"
        /\ inflight[q].pc \in {"update:Update", "delete:Delete"}

\* C22, in every state: every stored expense has both timestamps set, updated_at not
\* before created_at.
C22_Stamped ==
    \A u \in DOMAIN store :
        /\ store[u].CreatedAt # ZeroTime
        /\ store[u].UpdatedAt >= store[u].CreatedAt

\* C22, in every step: a row keeps its created_at as long as it is stored, and an
\* UpdateExpense that returns success, whatever it changed, leaves the row with an
\* updated_at later than the one it had and later than its created_at.
C22_StampsStep ==
    /\ \A u \in DOMAIN store \cap DOMAIN store' :
            store'[u].CreatedAt = store[u].CreatedAt
    /\ \A p \in Procs :
        (/\ inflight[p].pc = "update:Update"
         /\ inflight'[p].pc = "done"
         /\ inflight'[p].err = NoErr) =>
            LET u == UuidOf(inflight[p].id)
            IN  /\ u \in DOMAIN store /\ u \in DOMAIN store'
                /\ store'[u].UpdatedAt > store[u].UpdatedAt
                /\ store'[u].UpdatedAt > store'[u].CreatedAt
                /\ inflight'[p].exp.UpdatedAt = store'[u].UpdatedAt
                /\ inflight'[p].exp.CreatedAt = store[u].CreatedAt

\* C22: for every stored expense, created_at keeps the value set at insert through
\* any number of successful updates, while updated_at is refreshed by every successful
\* UpdateExpense (even one that changes no field), so that after an update updated_at
\* is strictly later than created_at.
C22_Timestamps == []C22_Stamped /\ [][C22_StampsStep]_vars

\* C22 witness: an update that supplied no field returned an expense updated for the
\* second time, its created_at still the time of the insert.
C22_Witness ==
    \E p \in Procs :
        /\ Done(p) /\ inflight[p].op = "update" /\ inflight[p].err = NoErr
        /\ inflight[p].req = ZeroRequest
        /\ inflight[p].exp.CreatedAt = 1
        /\ inflight[p].exp.UpdatedAt = 3

\* C23, in every state: every record is stored under its own id.
C23_StoredUnderOwnID ==
    \A u \in DOMAIN store : store[u].ID = u /\ u # NilUUID

\* C23, in every step: a CreateExpense that returns success has added one record,
\* under an id no record had, and changed no other; an UpdateExpense that returns
\* success returns and stores an entity whose id is the requested id, and the set of
\* stored ids is as before; no step changes the id of a stored record.
C23_IDStep ==
    /\ \A u \in DOMAIN store \cap DOMAIN store' : store'[u].ID = store[u].ID
    /\ \A p \in Procs :
        LET f == inflight[p]
            g == inflight'[p]
        IN  /\ (f.pc = "idle" /\ g.pc = "done" /\ g.op = "create" /\ g.err = NoErr) =>
                  /\ g.exp.ID \notin DOMAIN store
                  /\ DOMAIN store' = DOMAIN store \cup {g.exp.ID}
                  /\ store'[g.exp.ID] = g.exp
                  /\ \A u \in DOMAIN store : store'[u] = store[u]
            /\ (f.pc = "update:Update" /\ g.pc = "done" /\ g.err = NoErr) =>
                  /\ g.exp.ID = UuidOf(f.id)
                  /\ DOMAIN store' = DOMAIN store
                  /\ store'[UuidOf(f.id)] = g.exp

\* C23: an expense's id is generated at creation and never changes: every successful
\* CreateExpense stores a record under an id not used by any existing record, and a
\* successful UpdateExpense(id, req) returns and stores an entity whose id equals the
\* requested id, so no request body can alter or choose an id.
C23_IDImmutable == []C23_StoredUnderOwnID /\ [][C23_IDStep]_vars

\* C23 witness: with two records stored, an update of the second with every field
\* supplied returned it under its id.
C23_Witness ==
    \E p \in Procs :
        /\ Done(p) /\ inflight[p].op = "update" /\ inflight[p].err = NoErr
        /\ IsValidRequest(inflight[p].req)
        /\ inflight[p].id = IDString(2)
        /\ inflight[p].exp.ID = 2
        /\ DOMAIN store = {1, 2}

\* C24: for every (description, amount, category, date), NewExpense succeeds exactly
\* when Validate accepts an entity with those fields, and when they fail they return
\* the same error kind: what NewExpense returned for its arguments is what Validate
\* returns for an entity made of them, and what Validate returned for an entity is
\* what NewExpense returns for that entity's fields.
C24_SameRulesSameOrder ==
    /\ unit.fn = "NewExpense" =>
            LET a == unit.args
                e == Expense(1, a.Description, a.Amount, a.Category, a.Date, 1, 1)
            IN  /\ (unit.err = NoErr) <=> (Validate(e) = NoErr)
                /\ unit.err.kind = Validate(e).kind
                /\ unit.err = NoErr => Validate(unit.out) = NoErr
    /\ unit.fn = "Validate" =>
            LET e == unit.recv
                n == NewExpense(e.Description, e.Amount, e.Category, e.Date, e.ID)
            IN  /\ (unit.err = NoErr) <=> (n.err = NoErr)
                /\ unit.err.kind = n.err.kind

\* C24 witness: Validate rejected an entity that breaks the amount rule, the category
\* rule and the date rule, with the amount error.
C24_Witness ==
    /\ unit.fn = "Validate"
    /\ unit.recv.Description # EmptyString
    /\ unit.recv.Amount <= 0
    /\ unit.recv.Category = EmptyString
    /\ unit.recv.Date = ZeroTime
    /\ unit.err = ErrInvalidAmount

\* C25, in every state: every stored entity is valid, the entity an UpdateExpense is
\* about to save is valid, and an UpdateExpense never returns a validation error; when
\* it returns success the answer is 200 with a valid entity.
C25_ValidStaysValid ==
    /\ \A u \in DOMAIN store : IsValid(store[u])
    /\ \A p \in Procs :
        /\ inflight[p].pc = "update:Update" => IsValid(inflight[p].exp)
        /\ (Done(p) /\ inflight[p].op = "update") =>
              /\ inflight[p].err.kind \notin ValidationKinds
              /\ inflight[p].err = NoErr =>
                    inflight[p].status = 200 /\ IsValid(inflight[p].exp)

\* C25, in every step: an UpdateExpense that returns success leaves each field whose
\* request value is empty, non-positive or the zero date at the value the record had,
\* and sets each other field to the request's value.
C25_NotSuppliedStep ==
    \A p \in Procs :
        (/\ inflight[p].pc = "update:Update"
         /\ inflight'[p].pc = "done"
         /\ inflight'[p].err = NoErr) =>
            LET u == UuidOf(inflight[p].id)
                r == inflight[p].req
                new == inflight'[p].exp
            IN  /\ u \in DOMAIN store
                /\ store'[u] = new
                /\ new.Description =
                      IF r.Description = EmptyString THEN store[u].Description
                      ELSE r.Description
                /\ new.Amount = IF r.Amount <= 0 THEN store[u].Amount ELSE r.Amount
                /\ new.Category =
                      IF r.Category = EmptyString THEN store[u].Category ELSE r.Category
                /\ new.Date = IF r.Date = ZeroTime THEN store[u].Date ELSE r.Date

\* C25: Expense.Update can never make a valid entity invalid and never returns a
\* validation error for a valid entity: a non-positive amount, an empty description or
\* category, or a zero date in the request is treated as not supplied, so
\* UpdateExpense on an existing record with such values succeeds (200) with the
\* corresponding field left at its old value.
C25_UpdateNeverInvalidates == []C25_ValidStaysValid /\ [][C25_NotSuppliedStep]_vars

\* C25 witness: an update asking for a negative amount, an empty description, an
\* empty category and the zero date was answered 200 with the record as created.
C25_Witness ==
    \E p \in Procs :
        /\ Done(p) /\ inflight[p].op = "update" /\ inflight[p].err = NoErr
        /\ inflight[p].req = Request(EmptyString, -1, EmptyString, ZeroTime)
        /\ inflight[p].status = 200
        /\ inflight[p].exp.Description = <<"a">>
        /\ inflight[p].exp.Amount = 2
        /\ inflight[p].exp.Category = <<"F">>
        /\ inflight[p].exp.Date = 1

\* no field is supplied by both requests
Disjoint(r1, r2) ==
    /\ r1.Description = EmptyString \/ r2.Description = EmptyString
    /\ r1.Amount <= 0 \/ r2.Amount <= 0
    /\ r1.Category = EmptyString \/ r2.Category = EmptyString
    /\ r1.Date = ZeroTime \/ r2.Date = ZeroTime

\* the entity has every value the request supplies
Carries(e, r) ==
    /\ r.Description # EmptyString => e.Description = r.Description
    /\ r.Amount > 0 => e.Amount = r.Amount
    /\ r.Category # EmptyString => e.Category = r.Category
    /\ r.Date # ZeroTime => e.Date = r.Date

\* C26: when two UpdateExpense calls on the same existing id supply disjoint fields
\* and both have returned success, as the last two writes of the store, the stored
\* record carries the values supplied by both, however their storage steps interleaved.
C26_BothUpdatesKept ==
    \A p, q \in Procs :
        (/\ p # q
         /\ Done(p) /\ inflight[p].op = "update" /\ inflight[p].err = NoErr
         /\ Done(q) /\ inflight[q].op = "update" /\ inflight[q].err = NoErr
         /\ inflight[p].id = inflight[q].id
         /\ Disjoint(inflight[p].req, inflight[q].req)
         /\ inflight[q].exp.UpdatedAt = inflight[p].exp.UpdatedAt + 1
         /\ UuidOf(inflight[p].id) \in DOMAIN store
         /\ store[UuidOf(inflight[p].id)] = inflight[q].exp)
        => /\ Carries(store[UuidOf(inflight[p].id)], inflight[p].req)
           /\ Carries(store[UuidOf(inflight[p].id)], inflight[q].req)

\* C27: once a DeleteExpense of an id has returned success, no record with that id
\* is in the store, in any later state.
C27_DeletedStaysDeleted ==
    \A u \in UUIDs : deletions[u] > 0 => u \notin DOMAIN store

\* C28: when two DeleteExpense calls for the same existing id have run concurrently,
\* they never both report success; when neither met a storage failure, exactly one
\* returned success and the other an error of the NotFound kind, found by the exists
\* check or by the delete that affected no row; and once one has succeeded the
\* record is absent.
C28_OneDeleteWins ==
    \A p, q \in Procs :
        (/\ p # q
         /\ Done(p) /\ inflight[p].op = "delete"
         /\ Done(q) /\ inflight[q].op = "delete"
         /\ inflight[p].id = inflight[q].id
         /\ UuidOf(inflight[p].id) # NilUUID) =>
            LET u == UuidOf(inflight[p].id)
                ep == inflight[p].err
                eq == inflight[q].err
            IN  /\ ~(ep = NoErr /\ eq = NoErr)
                /\ deletions[u] <= 1
                /\ (ep = NoErr \/ eq = NoErr) => u \notin DOMAIN store
                /\ (ep.kind # "Storage" /\ eq.kind # "Storage") =>
                      /\ ep = NoErr \/ eq = NoErr
                      /\ ep = NoErr => IsNotFound(eq)
                      /\ eq = NoErr => IsNotFound(ep)
                      /\ ep # NoErr =>
                            inflight[p].calls \in {<<"Exists">>, <<"Exists", "Delete">>}

\* C28 witness: both deletes of record 1 passed the exists check; one removed the row
\* and the other's delete affected no row and returned NotFound.
C28_Witness ==
    \E p, q \in Procs :
        /\ Done(p) /\ inflight[p].op = "delete" /\ inflight[p].id = IDString(1)
        /\ Done(q) /\ inflight[q].op = "delete" /\ inflight[q].id = IDString(1)
        /\ inflight[p].err = NoErr
        /\ IsNotFound(inflight[q].err)
        /\ inflight[q].calls = <<"Exists", "Delete">>
        /\ 1 \notin DOMAIN store

\* the storage calls that write
WriteCalls == {"Create", "Update", "Delete"}

Writes(calls) == Cardinality({i \in DOMAIN calls : calls[i] \in WriteCalls})

\* C29, in every state: an operation has made at most one storage write, as its last
\* call, and GetExpense and GetAllExpenses none; every stored record is complete.
C29_AtMostOneWrite ==
    /\ \A p \in Procs :
        LET f == inflight[p]
        IN  /\ Writes(f.calls) <= 1
            /\ f.op \in {"get", "getAll"} => Writes(f.calls) = 0
            /\ Writes(f.calls) = 1 =>
                  /\ f.pc = "done"
                  /\ f.calls[Len(f.calls)] =
                        (CASE f.op = "create" -> "Create"
                           [] f.op = "update" -> "Update"
                           [] f.op = "delete" -> "Delete"
                           [] OTHER -> "none")
    /\ \A u \in DOMAIN store :
        /\ store[u].ID = u
        /\ IsValid(store[u])
        /\ store[u].CreatedAt # ZeroTime
        /\ store[u].UpdatedAt # ZeroTime

\* C29, in every step: the step in which an operation's write succeeds applies the
\* operation in full (the one record inserted, replaced by the returned entity, or
\* removed); every other step, a failed write included, leaves the store as it was.
C29_AllOrNothingStep ==
    \A p \in Procs :
        LET f == inflight[p]
            g == inflight'[p]
        IN  g # f =>
              IF f.pc # "done" /\ g.pc = "done" /\ g.err = NoErr /\ Writes(g.calls) = 1
              THEN CASE g.op = "create" ->
                            /\ g.exp.ID \notin DOMAIN store
                            /\ store' = Put(store, g.exp)
                     [] g.op = "update" ->
                            /\ g.exp.ID = UuidOf(g.id)
                            /\ store' = Put(store, g.exp)
                     [] g.op = "delete" ->
                            /\ UuidOf(g.id) \in DOMAIN store
                            /\ store' = Remove(store, UuidOf(g.id))
                     [] OTHER -> FALSE
              ELSE store' = store

\* C29: each Service operation performs at most one storage write (create: one
\* insert; update: one save; delete: one delete; get/getAll: none), so after any
\* failure or cancellation at any step the store is either exactly as before the
\* operation or has the operation fully applied, never a partially written record.
C29_SingleWrite == []C29_AtMostOneWrite /\ [][C29_AllOrNothingStep]_vars

\* C29 witness: an update asking for amount 2 went through exists and getByID and
\* its save failed in the store; the record is as it was created.
C29_Witness ==
    \E p \in Procs :
        /\ Done(p) /\ inflight[p].op = "update"
        /\ inflight[p].err.kind = "Storage"
        /\ inflight[p].calls = UpdateCalls
        /\ inflight[p].req.Amount = 2
        /\ 1 \in DOMAIN store
        /\ store[1].Amount = 1
        /\ store[1].UpdatedAt = store[1].CreatedAt

\* C30, in every state: a CreateExpense whose input fails validation has returned
\* the validation error without any storage call; an UpdateExpense or DeleteExpense
\* given a malformed id has returned from its exists step; an operation that returned
\* an error from a step before its write has made no write.
C30_NoWriteBeforeError ==
    \A p \in Procs :
        LET f == inflight[p]
        IN  /\ (Done(p) /\ f.op = "create" /\ ~IsValidRequest(f.req)) =>
                  /\ f.calls = <<>>
                  /\ f.err.kind \in ValidationKinds
                  /\ f.exp = NilExpense
            /\ (Done(p) /\ f.op \in {"update", "delete"} /\ UuidOf(f.id) = NilUUID) =>
                  /\ f.calls = <<"Exists">>
                  /\ f.err.kind = "InvalidUUID"
            /\ (Done(p) /\ f.err # NoErr /\ f.op \in {"get", "getAll"}) =>
                  Writes(f.calls) = 0
            /\ (Done(p) /\ f.err # NoErr /\ f.op \in {"update", "delete"}
                /\ Len(f.calls) < Len(CallsOf(f.op))) => Writes(f.calls) = 0

\* C30, in every step: a step of an operation that has made no write (every step of
\* GetExpense and GetAllExpenses, a rejected CreateExpense, and the exists and getByID
\* steps of UpdateExpense and DeleteExpense, failing or not) changes no record.
C30_ReadsChangeNothingStep ==
    \A p \in Procs :
        (inflight'[p] # inflight[p] /\ Writes(inflight'[p].calls) = 0) =>
            store' = store

\* C30: every Service operation that returns an error before its write step leaves
\* the store unchanged: CreateExpense with input that fails validation never calls the
\* store's create, and GetExpense, GetAllExpenses and a failing exists/getByID step of
\* UpdateExpense or DeleteExpense (including for a malformed id) change no record.
C30_ErrorsLeaveStore == []C30_NoWriteBeforeError /\ [][C30_ReadsChangeNothingStep]_vars

\* C30 witness: with one record stored, a CreateExpense whose only fault is the zero
\* date was rejected with the date error; no create was called, no id was drawn and
\* the record is the only one.
C30_Witness ==
    \E p \in Procs :
        /\ Done(p) /\ inflight[p].op = "create"
        /\ inflight[p].req = Request(<<"a">>, 1, <<"F">>, ZeroTime)
        /\ inflight[p].err.kind = "InvalidDate"
        /\ inflight[p].calls = <<>>
        /\ DOMAIN store = {1}
        /\ nextID = 1

====
